---------------------------- MODULE Spec2Model ----------------------------
(***************************************************************************)
(* Model of the metric aggregators of the KMC dashboard                    *)
(* (src/dashboard_metrics.py) and of the helpers they call                 *)
(* (src/utils/dashboard_utils.py).                                         *)
(*                                                                         *)
(* The aggregators are pure functions over lists of loosely typed records  *)
(* (Python dicts).  A dict is modelled as a TLA+ function whose DOMAIN is   *)
(* the set of keys that are present; dict.get(k, d) is Get(r, k, d).       *)
(* Every document the loader hands over carries its document id under the  *)
(* key "id" (dashboard_firebase.py:182, :235), so no record is empty.      *)
(*                                                                         *)
(* Time is counted in minutes.  A raw timestamp is a tagged value          *)
(*   [kind |-> "none"]          None / key holds no value                  *)
(*   [kind |-> "sec", v |-> m]  a number <= 10^12: epoch seconds, m minutes*)
(*   [kind |-> "ms",  v |-> m]  a number >  10^12: epoch milliseconds      *)
(*   [kind |-> "iso", v |-> m]  a string pandas parses to civil minute m   *)
(*   [kind |-> "bad", v |-> 0]  a string pandas cannot parse               *)
(* The state holds the arguments of a call and, after it, its result.      *)
(***************************************************************************)
EXTENDS Integers, Sequences, FiniteSets, TLC

VARIABLES baby_data,       \* the baby_data argument (list of dicts)
          discharge_data,  \* the discharge_data argument (list of dicts)
          args,            \* the remaining arguments of the last call
          called,          \* name of the function last applied, "none" before
          result           \* the value it returned

vars == <<baby_data, discharge_data, args, called, result>>

---------------------------------------------------------------------------
(* Bounds of the model *)

MaxBabies == 2
MaxDischarges == 2

---------------------------------------------------------------------------
(* Python dict and value helpers *)

Has(r, k) == k \in DOMAIN r

Get(r, k, d) == IF k \in DOMAIN r THEN r[k] ELSE d

\* Python None where a string is expected
None == "<None>"

\* truthiness of a str-or-None value
Truthy(s) == s # None /\ s # ""

\* baby.get(k) == True, and the truthiness of baby.get(k), for boolean fields
IsTrue(r, k) == Has(r, k) /\ r[k] = TRUE

NoTs == [kind |-> "none", v |-> 0]

\* truthiness of a raw timestamp: None and the number 0 are falsy
TsTruthy(ts) ==
    CASE ts.kind = "none" -> FALSE
      [] ts.kind \in {"sec", "ms"} -> ts.v # 0
      [] OTHER -> TRUE

\* all sequences over S of length 0..n
SeqUpTo(S, n) == UNION { [1..k -> S] : k \in 0..n }

RECURSIVE GCD(_, _)
GCD(a, b) == IF b = 0 THEN a ELSE GCD(b, a % b)

\* the float n / d * 100 as an exact reduced fraction <<numerator, denominator>>
Pct(n, d) ==
    LET g == GCD(n * 100, d) IN <<(n * 100) \div g, d \div g>>

Zero == <<0, 1>>

---------------------------------------------------------------------------
(* dashboard_utils.convert_unix_to_datetime *)

\* timezone(timedelta(hours=5, minutes=30)), in minutes
ISTOffset == 330

NoneDt == [ok |-> FALSE, t |-> 0]

convert_unix_to_datetime(timestamp) ==
    IF ~TsTruthy(timestamp) THEN NoneDt
    ELSE CASE timestamp.kind \in {"sec", "ms"} ->
                \* fromtimestamp(ts) or fromtimestamp(ts / 1000), then astimezone(IST)
                [ok |-> TRUE, t |-> timestamp.v + ISTOffset]
           [] timestamp.kind = "iso" -> [ok |-> TRUE, t |-> timestamp.v]
           [] OTHER -> NoneDt

---------------------------------------------------------------------------
(* Strings that are lower-cased: sequences of characters *)

UpperChars == <<"A", "B", "C", "D", "E", "F", "G", "H", "I", "J", "K", "L", "M",
                "N", "O", "P", "Q", "R", "S", "T", "U", "V", "W", "X", "Y", "Z">>

LowerChars == <<"a", "b", "c", "d", "e", "f", "g", "h", "i", "j", "k", "l", "m",
                "n", "o", "p", "q", "r", "s", "t", "u", "v", "w", "x", "y", "z">>

LowerChar(c) ==
    IF \E i \in DOMAIN UpperChars : UpperChars[i] = c
    THEN LowerChars[CHOOSE i \in DOMAIN UpperChars : UpperChars[i] = c]
    ELSE c

\* str.lower()
lower(str) == [i \in DOMAIN str |-> LowerChar(str[i])]

EmptyStr == <<>>

\* Python None (or any value without .lower()) where such a string is expected
NoneStr == <<"<None>">>

s_critical == <<"c", "r", "i", "t", "i", "c", "a", "l">>
s_stable == <<"s", "t", "a", "b", "l", "e">>
s_home == <<"h", "o", "m", "e">>
s_referred == <<"r", "e", "f", "e", "r", "r", "e", "d">>
s_died == <<"d", "i", "e", "d">>

\* what a call returns when an exception escapes it
Raised == "<raised>"

---------------------------------------------------------------------------
(* dashboard_utils.categorize_discharge *)

\* source == 'discharges': dischargeStatus / dischargeType
categorize_from_discharges(record) ==
    LET status == Get(record, "dischargeStatus", EmptyStr)
        type == Get(record, "dischargeType", EmptyStr)
    IN  IF status = NoneStr \/ type = NoneStr THEN Raised
        ELSE LET discharge_status == lower(status)
                 discharge_type == lower(type)
             IN  IF discharge_status = s_critical /\ discharge_type = s_home
                 THEN "critical_home"
                 ELSE IF discharge_status = s_stable /\ discharge_type = s_home
                 THEN "stable_home"
                 ELSE IF discharge_status = s_critical /\ discharge_type = s_referred
                 THEN "critical_referred"
                 ELSE IF discharge_type = s_died
                 THEN "died"
                 ELSE "other"

\* mutant: the 'baby' branch compares without lower-casing
categorize_from_baby_nolower(record) ==
    LET status == Get(record, "lastDischargeStatus", EmptyStr)
        type == Get(record, "lastDischargeType", EmptyStr)
    IN  IF status = NoneStr \/ type = NoneStr THEN Raised
        ELSE IF status = s_critical /\ type = s_home THEN "critical_home"
        ELSE IF status = s_stable /\ type = s_home THEN "stable_home"
        ELSE IF status = s_critical /\ type = s_referred THEN "critical_referred"
        ELSE IF type = s_died THEN "died"
        ELSE "other"

\* source == 'baby': lastDischargeStatus / lastDischargeType
categorize_from_baby(record) ==
    LET status == Get(record, "lastDischargeStatus", EmptyStr)
        type == Get(record, "lastDischargeType", EmptyStr)
    IN  IF status = NoneStr \/ type = NoneStr THEN Raised
        ELSE LET last_discharge_status == lower(status)
                 last_discharge_type == lower(type)
             IN  IF last_discharge_status = s_critical /\ last_discharge_type = s_home
                 THEN "critical_home"
                 ELSE IF last_discharge_status = s_stable /\ last_discharge_type = s_home
                 THEN "stable_home"
                 ELSE IF last_discharge_status = s_critical
                         /\ last_discharge_type = s_referred
                 THEN "critical_referred"
                 ELSE IF last_discharge_type = s_died
                 THEN "died"
                 ELSE "other"

\* source == 'babyBackUp': same fields as 'baby'
categorize_from_babyBackUp(record) ==
    LET status == Get(record, "lastDischargeStatus", EmptyStr)
        type == Get(record, "lastDischargeType", EmptyStr)
    IN  IF status = NoneStr \/ type = NoneStr THEN Raised
        ELSE LET last_discharge_status == lower(status)
                 last_discharge_type == lower(type)
             IN  IF last_discharge_status = s_critical /\ last_discharge_type = s_home
                 THEN "critical_home"
                 ELSE IF last_discharge_status = s_stable /\ last_discharge_type = s_home
                 THEN "stable_home"
                 ELSE IF last_discharge_status = s_critical
                         /\ last_discharge_type = s_referred
                 THEN "critical_referred"
                 ELSE IF last_discharge_type = s_died
                 THEN "died"
                 ELSE "other"

categorize_discharge(record, source) ==
    CASE source = "discharges" -> categorize_from_discharges(record)
      [] source = "baby" -> categorize_from_baby(record)
      [] source = "babyBackUp" -> categorize_from_babyBackUp(record)
      [] OTHER -> "other"

---------------------------------------------------------------------------
(* dashboard_metrics.calculate_registration_timeliness *)

\* the two labels of 'this hospital'; the first stands for the Devanagari one
InbornLabels == {"yah aspatal", "this hospital"}

IsInborn(baby) == Get(baby, "placeOfDelivery", None) \in InbornLabels

\* baby.get('registrationDate') or
\* baby.get('registrationDataType', {}).get('registrationDate')
RegistrationRaw(baby) ==
    IF TsTruthy(Get(baby, "registrationDate", NoTs))
    THEN baby.registrationDate
    ELSE Get(Get(baby, "registrationDataType", [id |-> "none"]),
             "registrationDate", NoTs)

\* (reg_time - birth_time) in minutes; defined when both are resolvable
RegTimed(baby) ==
    /\ convert_unix_to_datetime(Get(baby, "dateOfBirth", NoTs)).ok
    /\ convert_unix_to_datetime(RegistrationRaw(baby)).ok

RegDiff(baby) ==
    convert_unix_to_datetime(RegistrationRaw(baby)).t
      - convert_unix_to_datetime(Get(baby, "dateOfBirth", NoTs)).t

\* if 0 <= time_diff <= 24
RegWithin24(baby) ==
    RegTimed(baby) /\ 0 <= RegDiff(baby) /\ RegDiff(baby) <= 24 * 60

\* ... if time_diff <= 12 (nested in the branch above)
RegWithin12(baby) == RegWithin24(baby) /\ RegDiff(baby) <= 12 * 60

calculate_registration_timeliness(babies) ==
    LET inborn_babies == SelectSeq(babies, IsInborn)
        within_24h == Cardinality({i \in DOMAIN inborn_babies :
                                      RegWithin24(inborn_babies[i])})
        within_12h == Cardinality({i \in DOMAIN inborn_babies :
                                      RegWithin12(inborn_babies[i])})
        total_inborn == Len(inborn_babies)
    IN  [total_inborn |-> total_inborn,
         within_24h_count |-> within_24h,
         within_24h_percentage |->
             IF total_inborn > 0 THEN Pct(within_24h, total_inborn) ELSE Zero,
         within_12h_count |-> within_12h,
         within_12h_percentage |->
             IF total_inborn > 0 THEN Pct(within_12h, total_inborn) ELSE Zero]

---------------------------------------------------------------------------
(* dashboard_metrics.calculate_discharge_outcomes *)

ZeroCounts == [k \in {"critical_home", "stable_home", "critical_referred",
                      "died", "other"} |-> 0]

\* sum(cat['count'] for cat in categories.values())
SumCounts(counts) ==
    counts["critical_home"] + counts["stable_home"] + counts["critical_referred"]
      + counts["died"] + counts["other"]

\* {baby.get('UID') for baby in baby_data if baby.get('UID')}
SelectedBabyUids(babies) ==
    { Get(babies[i], "UID", None) : i \in {j \in DOMAIN babies :
                                            Truthy(Get(babies[j], "UID", None))} }

\* the loop over discharge_data from record i on; st holds processed_uids,
\* the category counts and whether categorize_discharge raised
RECURSIVE OutcomesLoop(_, _, _, _)
OutcomesLoop(discharges, selected, i, st) ==
    IF i > Len(discharges) \/ st.raised THEN st
    ELSE LET discharge == discharges[i]
             uid == Get(discharge, "UID", None)
         IN  IF ~Truthy(uid) \/ uid \in st.processed \/ uid \notin selected
             THEN OutcomesLoop(discharges, selected, i + 1, st)
             ELSE LET category == categorize_discharge(discharge, "discharges")
                  IN  OutcomesLoop(discharges, selected, i + 1,
                        IF category = Raised
                        THEN [st EXCEPT !.processed = @ \cup {uid}, !.raised = TRUE]
                        ELSE [st EXCEPT !.processed = @ \cup {uid},
                                        !.counts[category] = @ + 1])

calculate_discharge_outcomes(babies, discharges) ==
    LET st == OutcomesLoop(discharges, SelectedBabyUids(babies), 1,
                           [processed |-> {}, counts |-> ZeroCounts, raised |-> FALSE])
    IN  IF st.raised THEN [raised |-> TRUE]
        ELSE [raised |-> FALSE,
              categories |-> [k \in DOMAIN st.counts |->
                                 [count |-> st.counts[k], babies |-> <<>>]],
              total_discharged |-> SumCounts(st.counts),
              unique_babies_processed |-> Cardinality(st.processed)]

---------------------------------------------------------------------------
(* dashboard_utils.get_prioritized_*: hierarchical field resolution *)
(* A field value is a tuple: NA is the string 'N/A', Null is None, any     *)
(* other value is <<origin, key>>.                                         *)

NA == <<"N/A">>

Null == <<"None">>

\* matching_discharge when no discharge record matches (None)
NoMatch == [isNone |-> TRUE]

get_prioritized_discharge_weight(baby, matching_discharge) ==
    LET discharge_weight ==
            IF matching_discharge # NoMatch
            THEN Get(matching_discharge, "dischargeWeight", NA) ELSE NA
    IN  IF discharge_weight = NA THEN Get(baby, "dischargeWeight", NA)
        ELSE discharge_weight

get_prioritized_discharge_temperature(baby, matching_discharge) ==
    LET discharge_temp ==
            IF matching_discharge # NoMatch
            THEN Get(matching_discharge, "dischargeTemperature", NA) ELSE NA
    IN  IF discharge_temp = NA THEN Get(baby, "babyTemperatureDischarge2", NA)
        ELSE discharge_temp

get_prioritized_discharge_rr(baby, matching_discharge) ==
    LET discharge_rr ==
            IF matching_discharge # NoMatch
            THEN Get(matching_discharge, "dischargeRR", NA) ELSE NA
    IN  IF discharge_rr = NA THEN Get(baby, "babyRRdischarge", NA)
        ELSE discharge_rr

\* mutant: the baby record is consulted before the discharge record
get_prioritized_feed_mode_babyfirst(baby, matching_discharge) ==
    LET feed_mode == Get(baby, "whatFeedMode", NA)
    IN  IF feed_mode = NA /\ matching_discharge # NoMatch
        THEN Get(matching_discharge, "feedMode", NA)
        ELSE feed_mode

get_prioritized_feed_mode(baby, matching_discharge) ==
    LET feed_mode ==
            IF matching_discharge # NoMatch
            THEN Get(matching_discharge, "feedMode", NA) ELSE NA
    IN  IF feed_mode = NA THEN Get(baby, "whatFeedMode", NA)
        ELSE feed_mode

get_prioritized_baby_health(baby, matching_discharge) ==
    LET baby_health ==
            IF matching_discharge # NoMatch
            THEN Get(matching_discharge, "dischargeDangerSigns", NA) ELSE NA
    IN  IF baby_health = NA THEN Get(baby, "howsBabyHealth", NA)
        ELSE baby_health

get_prioritized_critical_reasons(baby, matching_discharge) ==
    LET critical_reasons ==
            IF matching_discharge # NoMatch
            THEN Get(matching_discharge, "criticalReasons", NA) ELSE NA
    IN  IF critical_reasons = NA THEN Get(baby, "criticalReasons", NA)
        ELSE critical_reasons

get_prioritized_discharge_reason(baby, matching_discharge) ==
    LET discharge_reason ==
            IF matching_discharge # NoMatch
            THEN Get(matching_discharge, "dischargeReason", NA) ELSE NA
    IN  IF discharge_reason = NA THEN Get(baby, "dischargeReason", NA)
        ELSE discharge_reason

---------------------------------------------------------------------------
(* dashboard_metrics.calculate_detailed_mortality_list: the UID, the       *)
(* hierarchical fields and the discharge status of each row                *)

\* str(value) of the temperature column
Str(value) == IF value = Null THEN <<"'None'">> ELSE value

\* next((d for d in discharge_data if d.get('UID') == uid), None)
MatchingDischarge(discharges, uid) ==
    IF \E i \in DOMAIN discharges : Get(discharges[i], "UID", None) = uid
    THEN discharges[CHOOSE i \in DOMAIN discharges :
                       /\ Get(discharges[i], "UID", None) = uid
                       /\ \A j \in 1..(i - 1) : Get(discharges[j], "UID", None) # uid]
    ELSE NoMatch

\* category_result of a row
MortalityCategory(baby, matching_discharge) ==
    IF matching_discharge # NoMatch
    THEN categorize_discharge(matching_discharge, "discharges")
    ELSE IF IsTrue(baby, "discharged") /\ Get(baby, "source", None) = "baby"
    THEN categorize_discharge(baby, "baby")
    ELSE IF IsTrue(baby, "discharged") /\ Get(baby, "source", None) = "babyBackUp"
    THEN categorize_discharge(baby, "babyBackUp")
    ELSE "other"

\* category_map.get(category_result, 'Other')
CategoryLabel(category) ==
    CASE category = "critical_home" -> "Critical & Home"
      [] category = "stable_home" -> "Stable & Home"
      [] category = "critical_referred" -> "Critical & Referred"
      [] category = "died" -> "Died"
      [] OTHER -> "Other"

MortalityRow(baby, matching_discharge) ==
    [UID |-> baby.UID,
     DischargeWeight |-> get_prioritized_discharge_weight(baby, matching_discharge),
     DischargeTemperature |->
         Str(get_prioritized_discharge_temperature(baby, matching_discharge)),
     DischargeRR |-> get_prioritized_discharge_rr(baby, matching_discharge),
     FeedMode |-> get_prioritized_feed_mode(baby, matching_discharge),
     HowBabyHealth |-> get_prioritized_baby_health(baby, matching_discharge),
     CriticalReason |-> get_prioritized_critical_reasons(baby, matching_discharge),
     DischargeReason |-> get_prioritized_discharge_reason(baby, matching_discharge),
     DischargeStatus |-> CategoryLabel(MortalityCategory(baby, matching_discharge))]

\* the loop over baby_data from record i on; st holds processed_uids, the
\* rows so far and whether categorize_discharge raised
RECURSIVE MortalityListLoop(_, _, _, _)
MortalityListLoop(babies, discharges, i, st) ==
    IF i > Len(babies) \/ st.raised THEN st
    ELSE LET baby == babies[i]
             uid == Get(baby, "UID", None)
         IN  IF IsTrue(baby, "deadBaby") /\ Truthy(uid) /\ uid \notin st.processed
             THEN LET matching_discharge == MatchingDischarge(discharges, uid)
                  IN  MortalityListLoop(babies, discharges, i + 1,
                        IF MortalityCategory(baby, matching_discharge) = Raised
                        THEN [st EXCEPT !.processed = @ \cup {uid}, !.raised = TRUE]
                        ELSE [st EXCEPT !.processed = @ \cup {uid},
                                        !.rows = Append(@, MortalityRow(baby,
                                                            matching_discharge))])
             ELSE MortalityListLoop(babies, discharges, i + 1, st)

calculate_detailed_mortality_list(babies, discharges) ==
    LET st == MortalityListLoop(babies, discharges, 1,
                                [processed |-> {}, rows |-> <<>>, raised |-> FALSE])
    IN  IF st.raised THEN [raised |-> TRUE, rows |-> <<>>]
        ELSE [raised |-> FALSE, rows |-> st.rows]

---------------------------------------------------------------------------
(* dashboard_metrics.calculate_sandbox_system_metrics and                  *)
(* calculate_sandbox_program_metrics: the eligibility filter               *)
(* A weight or gestational age is a tagged value:                          *)
(*   [kind |-> "none"]          None / absent                              *)
(*   [kind |-> "num", v |-> n]  the number n                               *)
(*   [kind |-> "str", v |-> n]  a non-empty string float() parses to n     *)
(*   [kind |-> "bad", v |-> 0]  a non-empty string float() rejects         *)
(*   [kind |-> "obj", v |-> 0]  a non-empty list or dict (TypeError)       *)

NoNum == [kind |-> "none", v |-> 0]

\* truthiness: None and the number 0 are falsy
NumTruthy(x) ==
    CASE x.kind = "none" -> FALSE
      [] x.kind = "num" -> x.v # 0
      [] OTHER -> TRUE

\* float(x) returns (no ValueError, no TypeError)
FloatOk(x) == x.kind \in {"num", "str"}

\* lines 1142-1163: is_eligible of one baby
is_eligible_system(baby) ==
    LET weight == Get(baby, "birthWeight", NoNum)
        ga == Get(baby, "gestationalAge", NoNum)
        \* if baby.get('babyInProgram')
        e1 == IsTrue(baby, "babyInProgram")
        \* if weight: try: if float(weight) < 2500
        e2 == e1 \/ (NumTruthy(weight) /\ FloatOk(weight) /\ weight.v < 2500)
        \* if not is_eligible and ga: try: if float(ga) <= 36
    IN  e2 \/ (~e2 /\ NumTruthy(ga) /\ FloatOk(ga) /\ ga.v <= 36)

\* lines 1431-1444: the same test, with bare except clauses
is_eligible_program(baby) ==
    LET weight == Get(baby, "birthWeight", NoNum)
        ga == Get(baby, "gestationalAge", NoNum)
        e1 == IsTrue(baby, "babyInProgram")
        e2 == e1 \/ (NumTruthy(weight) /\ FloatOk(weight) /\ weight.v < 2500)
    IN  e2 \/ (~e2 /\ NumTruthy(ga) /\ FloatOk(ga) /\ ga.v <= 36)

\* eligible_ids: the truthy UIDs of the eligible babies
EligibleIds(eligible_babies) == SelectedBabyUids(eligible_babies)

---------------------------------------------------------------------------
(* dashboard_metrics.calculate_nurse_activity *)
(* A nurse or hospital name is a sequence of text pieces, so that the key  *)
(* f"{nurse}|{hospital}" is their concatenation around "|".  A date is a   *)
(* day number: datetime.date() of a civil minute t is t \div MinutesPerDay.*)

MinutesPerDay == 24 * 60

DateOf(dt) == dt.t \div MinutesPerDay

NotSpecified == <<"Not specified">>

Unknown == <<"Unknown">>

\* a or b, for raw timestamps
TsOr(a, b) == IF TsTruthy(a) THEN a ELSE b

NurseKey(nurse_name, hospital) == nurse_name \o <<"|">> \o hospital

\* if key not in nurse_analysis: nurse_analysis[key] = {... all counters 0}
EnsureKey(nurse_analysis, nurse_name, hospital) ==
    LET key == NurseKey(nurse_name, hospital)
    IN  IF key \in DOMAIN nurse_analysis THEN nurse_analysis
        ELSE (key :> [nurseName |-> nurse_name, hospital |-> hospital,
                      followUps |-> 0, discharges |-> 0, registrations |-> 0])
             @@ nurse_analysis

\* not selected_hospitals or hospital in selected_hospitals
HospitalSelected(hospital, selected_hospitals) ==
    selected_hospitals = {} \/ hospital \in selected_hospitals

\* start_date <= dt.date() <= end_date
InWindow(dt, a) == a.start_date <= DateOf(dt) /\ DateOf(dt) <= a.end_date

\* the follow-up entries of a baby that count (lines 1020-1026)
CountedFollowUps(baby, a) ==
    LET follow_up_array == Get(baby, "followUp", <<>>)
        hospital == Get(baby, "hospitalName", Unknown)
    IN  Cardinality({ j \in DOMAIN follow_up_array :
          LET entry == follow_up_array[j]
              f_date == convert_unix_to_datetime(
                            TsOr(Get(entry, "date", NoTs), Get(entry, "followUpDate", NoTs)))
          IN  /\ Get(entry, "followUpNumber", 0) \in {1, 2, 3, 7, 14, 28}
              /\ f_date.ok /\ InWindow(f_date, a)
              /\ HospitalSelected(hospital, a.selected_hospitals) })

\* the follow-up loop over baby_data from record i on (lines 1003-1026)
RECURSIVE NurseFollowUpLoop(_, _, _, _)
NurseFollowUpLoop(babies, a, i, nurse_analysis) ==
    IF i > Len(babies) THEN nurse_analysis
    ELSE LET baby == babies[i]
             nurse_name == Get(baby, "nurseName", NotSpecified)
             hospital == Get(baby, "hospitalName", Unknown)
         IN  IF Get(baby, "followUp", <<>>) = <<>> \/ nurse_name = NotSpecified
             THEN NurseFollowUpLoop(babies, a, i + 1, nurse_analysis)
             ELSE NurseFollowUpLoop(babies, a, i + 1,
                    [EnsureKey(nurse_analysis, nurse_name, hospital)
                        EXCEPT ![NurseKey(nurse_name, hospital)].followUps =
                                   @ + CountedFollowUps(baby, a)])

\* the registration loop over baby_data from record i on (lines 1029-1045)
RECURSIVE NurseRegistrationLoop(_, _, _, _)
NurseRegistrationLoop(babies, a, i, nurse_analysis) ==
    IF i > Len(babies) THEN nurse_analysis
    ELSE LET baby == babies[i]
             nurse_name == Get(baby, "nurseName", NotSpecified)
             hospital == Get(baby, "hospitalName", Unknown)
             reg_date == convert_unix_to_datetime(Get(baby, "registrationDate", NoTs))
         IN  IF nurse_name = NotSpecified
             THEN NurseRegistrationLoop(babies, a, i + 1, nurse_analysis)
             ELSE NurseRegistrationLoop(babies, a, i + 1,
                    IF reg_date.ok /\ InWindow(reg_date, a)
                    THEN [EnsureKey(nurse_analysis, nurse_name, hospital)
                             EXCEPT ![NurseKey(nurse_name, hospital)].registrations = @ + 1]
                    ELSE EnsureKey(nurse_analysis, nurse_name, hospital))

\* mutant: the counted UID is not added to processed_discharge_uids
CountDischarge_noadd(st, uid, nurse_name, hospital, pool) ==
    [nurse_analysis |->
         [EnsureKey(st.nurse_analysis, nurse_name, hospital)
             EXCEPT ![NurseKey(nurse_name, hospital)].discharges = @ + 1],
     processed_discharge_uids |-> st.processed_discharge_uids,
     discharge_counts |-> [st.discharge_counts EXCEPT ![pool] = @ + 1]]

\* one discharge is counted for nurse_name at hospital in the given pool
CountDischarge(st, uid, nurse_name, hospital, pool) ==
    [nurse_analysis |->
         [EnsureKey(st.nurse_analysis, nurse_name, hospital)
             EXCEPT ![NurseKey(nurse_name, hospital)].discharges = @ + 1],
     processed_discharge_uids |-> st.processed_discharge_uids \cup {uid},
     discharge_counts |-> [st.discharge_counts EXCEPT ![pool] = @ + 1]]

\* if nurse != 'Not specified': if not date or in window: if hospital selected
DischargeCounts(nurse_name, hospital, date, a) ==
    /\ nurse_name # NotSpecified
    /\ (~date.ok \/ InWindow(date, a))
    /\ HospitalSelected(hospital, a.selected_hospitals)

\* 1. the discharges collection, from record i on (lines 1052-1071)
RECURSIVE NurseDischargePool(_, _, _, _)
NurseDischargePool(discharges, a, i, st) ==
    IF i > Len(discharges) THEN st
    ELSE LET discharge == discharges[i]
             uid == Get(discharge, "UID", None)
             discharge_nurse == Get(discharge, "dischargeNurseName", NotSpecified)
             hospital == Get(discharge, "hospitalName", Unknown)
             discharge_date == convert_unix_to_datetime(Get(discharge, "dischargeDate", NoTs))
         IN  IF ~Truthy(uid) \/ uid \in st.processed_discharge_uids
             THEN NurseDischargePool(discharges, a, i + 1, st)
             ELSE NurseDischargePool(discharges, a, i + 1,
                    IF DischargeCounts(discharge_nurse, hospital, discharge_date, a)
                    THEN CountDischarge(st, uid, discharge_nurse, hospital,
                                        "discharge_collection")
                    ELSE st)

\* 2. the records of source 'baby', from record i on (lines 1074-1095)
RECURSIVE NurseBabyPool(_, _, _, _)
NurseBabyPool(babies, a, i, st) ==
    IF i > Len(babies) THEN st
    ELSE LET baby == babies[i]
             uid == Get(baby, "UID", None)
             nurse_name == Get(baby, "nurseName", NotSpecified)
             hospital == Get(baby, "hospitalName", Unknown)
             d_date == convert_unix_to_datetime(
                           TsOr(Get(baby, "lastDischargeDate", NoTs),
                                Get(baby, "dischargeDate", NoTs)))
         IN  IF \/ Get(baby, "source", None) # "baby"
                \/ ~Truthy(uid) \/ uid \in st.processed_discharge_uids
                \/ ~IsTrue(baby, "discharged")
             THEN NurseBabyPool(babies, a, i + 1, st)
             ELSE NurseBabyPool(babies, a, i + 1,
                    IF DischargeCounts(nurse_name, hospital, d_date, a)
                    THEN CountDischarge(st, uid, nurse_name, hospital, "baby_collection")
                    ELSE st)

\* 3. the records of source 'babyBackUp', from record i on (lines 1098-1119)
RECURSIVE NurseBackUpPool(_, _, _, _)
NurseBackUpPool(babies, a, i, st) ==
    IF i > Len(babies) THEN st
    ELSE LET baby == babies[i]
             uid == Get(baby, "UID", None)
             nurse_name == Get(baby, "nurseName", NotSpecified)
             hospital == Get(baby, "hospitalName", Unknown)
             d_date == convert_unix_to_datetime(
                           TsOr(Get(baby, "dischargeDate", NoTs),
                                Get(baby, "lastDischargeDate", NoTs)))
         IN  IF \/ Get(baby, "source", None) # "babyBackUp"
                \/ ~Truthy(uid) \/ uid \in st.processed_discharge_uids
                \/ ~IsTrue(baby, "discharged")
             THEN NurseBackUpPool(babies, a, i + 1, st)
             ELSE NurseBackUpPool(babies, a, i + 1,
                    IF DischargeCounts(nurse_name, hospital, d_date, a)
                    THEN CountDischarge(st, uid, nurse_name, hospital,
                                        "babybackup_collection")
                    ELSE st)

\* returns (nurse_analysis, discharge_counts); processed_discharge_uids is
\* the function's local set, kept beside them for the properties
calculate_nurse_activity(babies, discharges, a) ==
    LET followed == NurseFollowUpLoop(babies, a, 1, <<>>)
        registered == NurseRegistrationLoop(babies, a, 1, followed)
        st0 == [nurse_analysis |-> registered,
                processed_discharge_uids |-> {},
                discharge_counts |-> [discharge_collection |-> 0, baby_collection |-> 0,
                                      babybackup_collection |-> 0]]
        st1 == NurseDischargePool(discharges, a, 1, st0)
        st2 == NurseBabyPool(babies, a, 1, st1)
    IN  NurseBackUpPool(babies, a, 1, st2)

---------------------------------------------------------------------------
(* dashboard_utils.check_kmc_stability, dashboard_metrics.calculate_death_rates *)

InstabilityFlags ==
    {"oxygenTherapy", "onOxygen", "mechanicalVentilation", "onVentilator", "sepsis",
     "jaundice", "hypoglycemia", "hypothermia", "apnea", "feedingDifficulty",
     "lethargy", "seizures"}

check_kmc_stability(baby) ==
    LET first == Get(baby, "birthWeight", NoNum)
        birth_weight == IF NumTruthy(first) THEN first ELSE Get(baby, "weight", NoNum)
    IN  IF \/ \E k \in InstabilityFlags : IsTrue(baby, k)
           \/ NumTruthy(birth_weight) /\ FloatOk(birth_weight) /\ birth_weight.v < 1500
        THEN "unstable" ELSE "stable"

\* the records with a UID, a UID seen before included
RECURSIVE DeathFirstSeen_nodedup(_, _, _)
DeathFirstSeen_nodedup(babies, i, processed_uids) ==
    IF i > Len(babies) THEN <<>>
    ELSE IF ~Truthy(Get(babies[i], "UID", None))
         THEN DeathFirstSeen_nodedup(babies, i + 1, processed_uids)
         ELSE <<babies[i]>> \o DeathFirstSeen_nodedup(babies, i + 1, processed_uids)

\* the records the first loop does not skip: the first record of each
\* non-empty UID, in list order (lines 413-417)
RECURSIVE DeathFirstSeen(_, _, _)
DeathFirstSeen(babies, i, processed_uids) ==
    IF i > Len(babies) THEN <<>>
    ELSE LET uid == Get(babies[i], "UID", None)
         IN  IF ~Truthy(uid) \/ uid \in processed_uids
             THEN DeathFirstSeen(babies, i + 1, processed_uids)
             ELSE <<babies[i]>> \o DeathFirstSeen(babies, i + 1, processed_uids \cup {uid})

\* is_dead = baby.get('deadBaby') == True
IsDead(baby) == IsTrue(baby, "deadBaby")

\* the same with a started day counted as a whole one
AgeDays_roundup(baby) ==
    LET date_of_birth == convert_unix_to_datetime(Get(baby, "dateOfBirth", NoTs))
        date_of_death == convert_unix_to_datetime(Get(baby, "dateOfDeath", NoTs))
    IN  [ok |-> date_of_birth.ok /\ date_of_death.ok,
         days |-> (date_of_death.t - date_of_birth.t + MinutesPerDay - 1)
                     \div MinutesPerDay]

\* (date_of_death - date_of_birth).days, when both dates resolve
AgeDays(baby) ==
    LET date_of_birth == convert_unix_to_datetime(Get(baby, "dateOfBirth", NoTs))
        date_of_death == convert_unix_to_datetime(Get(baby, "dateOfDeath", NoTs))
    IN  [ok |-> date_of_birth.ok /\ date_of_death.ok,
         days |-> (date_of_death.t - date_of_birth.t) \div MinutesPerDay]

NeonatalDays == 28

ZeroOutcomes ==
    [k \in {"critical_home", "stable_home", "critical_referred", "died", "other"} |->
        [count |-> 0, babies |-> <<>>]]

\* discharge_outcomes_dead[category]: count += 1, babies.append(record);
\* processed_discharge_uids_dead.add(uid); an exception ends the function
ClassifyDead(st, uid, record, category) ==
    IF category = Raised THEN [st EXCEPT !.raised = TRUE]
    ELSE [st EXCEPT !.processed = @ \cup {uid},
                    !.categories[category] =
                        [count |-> @.count + 1, babies |-> Append(@.babies, record)]]

\* 1. the discharges collection, from record i on (lines 474-480)
RECURSIVE DeathDischargePass(_, _, _, _)
DeathDischargePass(discharges, dead_uids, i, st) ==
    IF i > Len(discharges) \/ st.raised THEN st
    ELSE LET discharge == discharges[i]
             uid == Get(discharge, "UID", None)
         IN  IF uid \in dead_uids /\ uid \notin st.processed
             THEN DeathDischargePass(discharges, dead_uids, i + 1,
                    ClassifyDead(st, uid, discharge,
                                 categorize_discharge(discharge, "discharges")))
             ELSE DeathDischargePass(discharges, dead_uids, i + 1, st)

\* 2. the baby/backup records, one loop in list order, from record i on
\* (lines 483-496)
RECURSIVE DeathBabyPass(_, _, _, _)
DeathBabyPass(babies, dead_uids, i, st) ==
    IF i > Len(babies) \/ st.raised THEN st
    ELSE LET baby == babies[i]
             uid == Get(baby, "UID", None)
             source == Get(baby, "source", "")
         IN  IF /\ uid \in dead_uids /\ uid \notin st.processed
                /\ IsTrue(baby, "discharged")
                /\ source \in {"baby", "babyBackUp"}
             THEN DeathBabyPass(babies, dead_uids, i + 1,
                    ClassifyDead(st, uid, baby, categorize_discharge(baby, source)))
             ELSE DeathBabyPass(babies, dead_uids, i + 1, st)

\* the number of records of seq that satisfy Test
CountIf(seq, Test(_)) == Cardinality({i \in DOMAIN seq : Test(seq[i])})

\* the hospitals are the keys of hospital_totals; each is given with its
\* total, deaths and rate
calculate_death_rates(babies, discharges) ==
    LET seen == DeathFirstSeen(babies, 1, {})
        dead == SelectSeq(seen, IsDead)
        dead_uids == { dead[i].UID : i \in DOMAIN dead }
        HospitalOf(baby) == Get(baby, "hospitalName", Unknown)
        LocationOf(baby) == Get(baby, "currentLocationOfTheBaby", "Unknown")
        IsOutborn(baby) == ~IsInborn(baby)
        IsStable(baby) == check_kmc_stability(baby) = "stable"
        IsUnstable(baby) == ~IsStable(baby)
        IsNeonatal(baby) == AgeDays(baby).ok /\ AgeDays(baby).days <= NeonatalDays
        IsInfant(baby) == AgeDays(baby).ok /\ AgeDays(baby).days > NeonatalDays
        st0 == [processed |-> {}, categories |-> ZeroOutcomes, raised |-> FALSE]
        st1 == DeathDischargePass(discharges, dead_uids, 1, st0)
        st2 == DeathBabyPass(babies, dead_uids, 1, st1)
        total_babies == Len(seen)
        dead_babies == Cardinality(dead_uids)
    IN  [raised |-> st2.raised,
         total_babies |-> total_babies,
         dead_babies |-> dead_babies,
         mortality_rate |->
             IF total_babies > 0 THEN Pct(dead_babies, total_babies) ELSE Zero,
         hospital_data |->
             [h \in { HospitalOf(seen[i]) : i \in DOMAIN seen } |->
                 LET AtH(baby) == HospitalOf(baby) = h
                     t == CountIf(seen, AtH)
                     d == CountIf(dead, AtH)
                 IN  [total |-> t, deaths |-> d,
                      rate |-> IF t > 0 THEN Pct(d, t) ELSE Zero]],
         birth_place |->
             [inborn |-> [total |-> CountIf(seen, IsInborn),
                          deaths |-> CountIf(dead, IsInborn)],
              outborn |-> [total |-> CountIf(seen, IsOutborn),
                           deaths |-> CountIf(dead, IsOutborn)]],
         location_analysis |->
             [loc \in { LocationOf(seen[i]) : i \in DOMAIN seen } |->
                 LET AtLoc(baby) == LocationOf(baby) = loc
                 IN  [total |-> CountIf(seen, AtLoc), deaths |-> CountIf(dead, AtLoc)]],
         kmc_stability |->
             [stable |-> [total |-> CountIf(seen, IsStable),
                          deaths |-> CountIf(dead, IsStable)],
              unstable |-> [total |-> CountIf(seen, IsUnstable),
                            deaths |-> CountIf(dead, IsUnstable)]],
         neonatal_vs_infant |->
             [neonatal |-> [deaths |-> CountIf(dead, IsNeonatal)],
              infant |-> [deaths |-> CountIf(dead, IsInfant)]],
         discharge_outcomes |->
             [categories |-> st2.categories,
              total_discharged |->
                  st2.categories["critical_home"].count + st2.categories["stable_home"].count
                    + st2.categories["critical_referred"].count
                    + st2.categories["died"].count + st2.categories["other"].count]]

---------------------------------------------------------------------------
(* dashboard_metrics.calculate_kmc_initiation_metrics *)
(* Hours are exact fractions <<numerator, denominator>> of minutes / 60.   *)

Abs(n) == IF n < 0 THEN -n ELSE n

\* the float n / d as an exact reduced fraction, d > 0
Frac(n, d) == LET g == GCD(Abs(n), d) IN <<n \div g, d \div g>>

\* fraction <= whole number
FracLe(f, n) == f[1] <= n * f[2]

EmptyDict == <<>>

NoFirstKmc == [date |-> NoneDt, minutes |-> 0]

\* Method 1: the loop over kmc_sessions from session i on (lines 81-89);
\* first holds first_kmc_date and the minutes behind first_kmc_hours
RECURSIVE FirstSessionLoop(_, _, _)
FirstSessionLoop(kmc_sessions, i, first) ==
    IF i > Len(kmc_sessions) THEN first
    ELSE LET session == kmc_sessions[i]
             time_start == Get(session, "kmcStart", NoTs)
             session_start == convert_unix_to_datetime(time_start)
         IN  IF /\ TsTruthy(time_start) /\ session_start.ok
                /\ (~first.date.ok \/ session_start.t < first.date.t)
             THEN FirstSessionLoop(kmc_sessions, i + 1,
                    [date |-> session_start, minutes |-> Get(session, "kmcDuration", 0)])
             ELSE FirstSessionLoop(kmc_sessions, i + 1, first)

\* Method 2: sorted(age_days, key=ageDayNumber or 999) is stable, and the
\* loop stops at the first day with positive totalKMCToday and a truthy
\* ageDayDate (lines 94-103)
FirstAgeDay(age_days) ==
    LET Number(j) == Get(age_days[j], "ageDayNumber", 999)
        hits == { j \in DOMAIN age_days :
                    /\ Get(age_days[j], "totalKMCToday", 0) > 0
                    /\ TsTruthy(Get(age_days[j], "ageDayDate", NoTs)) }
    IN  IF hits = {} THEN NoFirstKmc
        ELSE LET j == CHOOSE h \in hits :
                        \A g \in hits : \/ Number(h) < Number(g)
                                        \/ Number(h) = Number(g) /\ h <= g
             IN  [date |-> convert_unix_to_datetime(age_days[j].ageDayDate),
                  minutes |-> age_days[j].totalKMCToday]

\* Legacy: the loop over observationDay from entry i on (lines 107-113)
RECURSIVE FirstObservationLoop(_, _, _, _)
FirstObservationLoop(observationDay, birth_date, i, first) ==
    IF i > Len(observationDay) THEN first
    ELSE LET obs_day == observationDay[i]
             kmc_date == [ok |-> TRUE,
                          t |-> birth_date.t + Get(obs_day, "ageDay", 0) * MinutesPerDay]
         IN  IF /\ Get(obs_day, "totalKMCtimeDay", 0) > 0
                /\ (~first.date.ok \/ kmc_date.t < first.date.t)
             THEN FirstObservationLoop(observationDay, birth_date, i + 1,
                    [date |-> kmc_date, minutes |-> obs_day.totalKMCtimeDay])
             ELSE FirstObservationLoop(observationDay, birth_date, i + 1, first)

\* first_kmc_date and first_kmc_hours of one baby (lines 74-113)
FirstKmc(baby, birth_date) ==
    LET m1 == FirstSessionLoop(Get(baby, "kmc_sessions", <<>>), 1, NoFirstKmc)
        m2 == IF m1.date.ok THEN m1
              ELSE FirstAgeDay(Get(baby, "age_days", <<>>))
    IN  IF ~m2.date.ok /\ Has(baby, "observationDay")
        THEN FirstObservationLoop(baby.observationDay, birth_date, 1, m2)
        ELSE m2

\* the loop over baby_data from record i on (lines 60-127)
RECURSIVE InitiationLoop(_, _)
InitiationLoop(babies, i) ==
    IF i > Len(babies) THEN <<>>
    ELSE LET baby == babies[i]
             uid == Get(baby, "UID", None)
             birth_date == convert_unix_to_datetime(Get(baby, "dateOfBirth", NoTs))
             first == FirstKmc(baby, birth_date)
         IN  IF ~Truthy(uid) \/ ~birth_date.ok \/ ~first.date.ok
             THEN InitiationLoop(babies, i + 1)
             ELSE <<[UID |-> uid,
                     hospital |-> Get(baby, "hospitalName", Unknown),
                     birth_date |-> birth_date,
                     first_kmc_date |-> first.date,
                     time_to_initiation_hours |-> Frac(first.date.t - birth_date.t, 60),
                     first_kmc_hours |-> Frac(first.minutes, 60),
                     is_inborn |-> IsInborn(baby),
                     delivery_type |-> IF IsInborn(baby) THEN "Inborn" ELSE "Outborn",
                     current_location |-> Get(baby, "currentLocationOfTheBaby", "Unknown")]>>
                  \o InitiationLoop(babies, i + 1)

Within24h(d) == FracLe(d.time_to_initiation_hours, 24)

Within48h(d) == FracLe(d.time_to_initiation_hours, 48)

RECURSIVE SumMinutes(_, _)
SumMinutes(data, i) ==
    IF i > Len(data) THEN 0
    ELSE (data[i].first_kmc_date.t - data[i].birth_date.t) + SumMinutes(data, i + 1)

\* sum(d['time_to_initiation_hours'] for d in data) / count
AvgHours(data) == Frac(SumMinutes(data, 1), 60 * Len(data))

calc_stats(data) ==
    IF data = <<>> THEN EmptyDict
    ELSE LET count == Len(data)
             w24 == CountIf(data, Within24h)
             w48 == CountIf(data, Within48h)
         IN  [count |-> count,
              avg_time_hours |-> AvgHours(data),
              within_24h_count |-> w24, within_24h_percentage |-> Pct(w24, count),
              within_48h_count |-> w48, within_48h_percentage |-> Pct(w48, count)]

IsInbornRow(d) == d.is_inborn

IsOutbornRow(d) == ~d.is_inborn

calculate_kmc_initiation_metrics(babies) ==
    LET initiation_data == InitiationLoop(babies, 1)
        total_babies == Len(initiation_data)
        within_24h == CountIf(initiation_data, Within24h)
        within_48h == CountIf(initiation_data, Within48h)
    IN  IF initiation_data = <<>>
        THEN [total_babies_with_kmc |-> 0, avg_time_to_initiation_hours |-> Zero,
              within_24h_count |-> 0, within_24h_percentage |-> Zero,
              within_48h_count |-> 0, within_48h_percentage |-> Zero,
              initiation_data |-> <<>>,
              inborn_stats |-> EmptyDict, outborn_stats |-> EmptyDict,
              inborn_location_stats |-> EmptyDict,
              inborn_location_hospital_stats |-> EmptyDict,
              hospital_stats |-> EmptyDict]
        ELSE [total_babies_with_kmc |-> total_babies,
              avg_time_to_initiation_hours |-> AvgHours(initiation_data),
              within_24h_count |-> within_24h,
              within_24h_percentage |-> Pct(within_24h, total_babies),
              within_48h_count |-> within_48h,
              within_48h_percentage |-> Pct(within_48h, total_babies),
              initiation_data |-> initiation_data,
              inborn_stats |-> calc_stats(SelectSeq(initiation_data, IsInbornRow)),
              outborn_stats |-> calc_stats(SelectSeq(initiation_data, IsOutbornRow)),
              inborn_location_stats |-> EmptyDict,
              inborn_location_hospital_stats |-> EmptyDict,
              hospital_stats |-> EmptyDict]

---------------------------------------------------------------------------
(* dashboard_metrics.calculate_followup_metrics *)

\* followup_requirements, in insertion order
FollowupTypes == <<"Follow up 2", "Follow up 7", "Follow up 14", "Follow up 28">>

FollowupNumbers == <<2, 7, 14, 28>>

\* the records the loop does not skip, in list order (lines 283-287): a
\* record is skipped without its UID being added to processed_uids when
\* deadBaby is true
RECURSIVE FollowupKept(_, _, _)
FollowupKept(babies, i, processed_uids) ==
    IF i > Len(babies) THEN <<>>
    ELSE LET uid == Get(babies[i], "UID", None)
         IN  IF ~Truthy(uid) \/ uid \in processed_uids \/ IsDead(babies[i])
             THEN FollowupKept(babies, i + 1, processed_uids)
             ELSE <<babies[i]>> \o FollowupKept(babies, i + 1, processed_uids \cup {uid})

\* the keys of hospital_stats in insertion order
RECURSIVE FollowupHospitals(_, _, _)
FollowupHospitals(kept, i, seen) ==
    IF i > Len(kept) THEN <<>>
    ELSE LET hospital == Get(kept[i], "hospitalName", Unknown)
         IN  IF hospital \in seen THEN FollowupHospitals(kept, i + 1, seen)
             ELSE <<hospital>> \o FollowupHospitals(kept, i + 1, seen \cup {hospital})

\* for entry in followup_array: if followUpNumber == number: completed += 1; break
HasFollowup(baby, number) ==
    LET followup_array == Get(baby, "followUp", <<>>)
    IN  \E j \in DOMAIN followup_array :
            Get(followup_array[j], "followUpNumber", 0) = number

\* the row of followup_summary for one hospital and one requirement
FollowupRow(kept, hospital, k) ==
    LET AtHospital(baby) == Get(baby, "hospitalName", Unknown) = hospital
        Completed(baby) == AtHospital(baby) /\ HasFollowup(baby, FollowupNumbers[k])
        eligible == CountIf(kept, AtHospital)
        completed == CountIf(kept, Completed)
    IN  [hospital |-> hospital, followup_type |-> FollowupTypes[k],
         eligible |-> eligible, completed |-> completed,
         completion_rate |-> Pct(completed, eligible)]

\* followup_summary: hospitals in insertion order, requirements in order;
\* every hospital of hospital_stats has eligible > 0
RECURSIVE FollowupSummary(_, _, _)
FollowupSummary(kept, hospitals, i) ==
    IF i > Len(hospitals) THEN <<>>
    ELSE [k \in 1..Len(FollowupTypes) |-> FollowupRow(kept, hospitals[i], k)]
           \o FollowupSummary(kept, hospitals, i + 1)

RECURSIVE SumField(_, _, _)
SumField(rows, field, i) ==
    IF i > Len(rows) THEN 0 ELSE rows[i][field] + SumField(rows, field, i + 1)

calculate_followup_metrics(followups, babies) ==
    LET kept == FollowupKept(babies, 1, {})
        followup_summary == FollowupSummary(kept, FollowupHospitals(kept, 1, {}), 1)
        total_eligible == SumField(followup_summary, "eligible", 1)
        total_completed == SumField(followup_summary, "completed", 1)
    IN  [followup_types |-> FollowupTypes,
         total_eligible |-> total_eligible,
         total_completed |-> total_completed,
         overall_completion_rate |->
             IF total_eligible > 0 THEN Pct(total_completed, total_eligible) ELSE Zero,
         hospital_summary |-> followup_summary,
         unique_babies_processed |-> Len(kept)]

---------------------------------------------------------------------------
(* dashboard_metrics.calculate_sandbox_system_metrics and                  *)
(* calculate_sandbox_program_metrics: the computations after the          *)
(* eligibility filter.  KMC durations are kept in minutes: h hours are     *)
(* 60 * h minutes.  datetime.now() is the argument now, a civil minute.    *)
(* A call writes into the followUp and kmc_sessions entries of the babies  *)
(* it was given: BabiesAfter is baby_data as the call leaves it.  The      *)
(* local map daily_kmc_map / kmc_per_day is kept beside the result.        *)

\* the same with an empty denominator read as the whole
safe_div_full(n, d) == IF d # 0 THEN Frac(n, d) ELSE <<1, 1>>

\* safe_div(n, d): n / d if d else 0.0
safe_div(n, d) == IF d # 0 THEN Frac(n, d) ELSE Zero

\* a fraction times 100
Times100(f) == Frac(f[1] * 100, f[2])

Max(a, b) == IF a >= b THEN a ELSE b

\* 'sub' in text, for sequences of characters
Contains(text, sub) ==
    \E i \in 1..(Len(text) - Len(sub) + 1) : SubSeq(text, i, i + Len(sub) - 1) = sub

\* str(value).lower(): None prints as 'None'
StrLower(value) == IF value = NoneStr THEN <<"n", "o", "n", "e">> ELSE lower(value)

s_refer == <<"r", "e", "f", "e", "r">>

s_transfer == <<"t", "r", "a", "n", "s", "f", "e", "r">>

s_completed == <<"c", "o", "m", "p", "l", "e", "t", "e", "d">>

s_contacted == <<"c", "o", "n", "t", "a", "c", "t", "e", "d">>

\* f.get('idBaby') or f.get('UID')
EntryUid(entry) ==
    IF Truthy(Get(entry, "idBaby", None)) THEN entry.idBaby ELSE Get(entry, "UID", None)

\* the write into one nested entry: system tests idBaby and UID (lines
\* 1184-1185, 1200-1201), program tests UID only (lines 1457, 1469)
LinkEntry(entry, baby, fn) ==
    IF /\ ~Truthy(Get(entry, "UID", None))
       /\ (fn = "program" \/ ~Truthy(Get(entry, "idBaby", None)))
    THEN ("UID" :> Get(baby, "UID", None)) @@ entry
    ELSE entry

\* an eligible baby as the pre-processing leaves it
LinkBaby(baby, fn, link_followups, link_sessions) ==
    [k \in DOMAIN baby |->
        IF (k = "followUp" /\ link_followups) \/ (k = "kmc_sessions" /\ link_sessions)
        THEN [j \in DOMAIN baby[k] |-> LinkEntry(baby[k][j], baby, fn)]
        ELSE baby[k]]

\* baby_data after the call: the eligible babies are the same objects as
\* the elements of baby_data
BabiesAfter(babies, fn, followups, sessions) ==
    [i \in DOMAIN babies |->
        IF (fn = "system" /\ is_eligible_system(babies[i]))
           \/ (fn = "program" /\ is_eligible_program(babies[i]))
        THEN LinkBaby(babies[i], fn, followups = <<>>, sessions = <<>>)
        ELSE babies[i]]

\* the entries under key of all babies, in order
RECURSIVE NestedEntries(_, _, _)
NestedEntries(babies, key, i) ==
    IF i > Len(babies) THEN <<>>
    ELSE Get(babies[i], key, <<>>) \o NestedEntries(babies, key, i + 1)

\* eligible_followups / eligible_sessions
EligibleEntries(eligible_babies, key, data) ==
    IF data = <<>> THEN NestedEntries(eligible_babies, key, 1)
    ELSE LET eligible_ids == EligibleIds(eligible_babies)
             Matches(entry) == EntryUid(entry) \in eligible_ids
         IN  SelectSeq(data, Matches)

\* daily_kmc_map[(bid, date)] += minutes, on a defaultdict
AddMinutes(map, key, minutes) ==
    IF key \in DOMAIN map THEN [map EXCEPT ![key] = @ + minutes]
    ELSE (key :> minutes) @@ map

\* the loop over eligible_sessions from session i on (lines 1319-1324,
\* 1533-1538)
RECURSIVE SessionDayLoop(_, _, _)
SessionDayLoop(eligible_sessions, i, map) ==
    IF i > Len(eligible_sessions) THEN map
    ELSE LET s == eligible_sessions[i]
             bid == EntryUid(s)
             start == convert_unix_to_datetime(Get(s, "kmcStart", NoTs))
         IN  SessionDayLoop(eligible_sessions, i + 1,
                IF Truthy(bid) /\ start.ok
                THEN AddMinutes(map, <<bid, DateOf(start)>>, Get(s, "kmcDuration", 0))
                ELSE map)

\* the age_days entries of the babies from baby i on, each with the bid of
\* its baby; the system function skips babies without UID (line 1329)
RECURSIVE AgeDayEntries(_, _, _)
AgeDayEntries(eligible_babies, fn, i) ==
    IF i > Len(eligible_babies) THEN <<>>
    ELSE LET baby == eligible_babies[i]
             bid == Get(baby, "UID", None)
             age_days == Get(baby, "age_days", <<>>)
         IN  (IF fn = "system" /\ ~Truthy(bid) THEN <<>>
              ELSE [j \in DOMAIN age_days |-> [bid |-> bid, day |-> age_days[j]]])
             \o AgeDayEntries(eligible_babies, fn, i + 1)

\* the loop over those entries from entry i on (lines 1331-1337,
\* 1542-1550): convert_unix_to_datetime(...).date() raises AttributeError
\* when the conversion returns None
RECURSIVE AgeDayLoop(_, _, _)
AgeDayLoop(entries, i, st) ==
    IF i > Len(entries) \/ st.raised THEN st
    ELSE LET bid == entries[i].bid
             day == entries[i].day
             mins == Get(day, "totalKMCToday", 0)
             date == Get(day, "ageDayDate", NoTs)
             d == convert_unix_to_datetime(date)
             key == <<bid, DateOf(d)>>
         IN  IF ~(mins > 0 /\ TsTruthy(date)) THEN AgeDayLoop(entries, i + 1, st)
             ELSE IF ~d.ok THEN [st EXCEPT !.raised = TRUE]
             ELSE AgeDayLoop(entries, i + 1,
                    [st EXCEPT !.map = (key :> Max(Get(st.map, key, 0), mins)) @@ st.map])

\* daily_kmc_map / kmc_per_day, and whether building it raised
DailyKmc(eligible_babies, eligible_sessions, fn) ==
    AgeDayLoop(AgeDayEntries(eligible_babies, fn, 1), 1,
               [map |-> SessionDayLoop(eligible_sessions, 1, <<>>), raised |-> FALSE])

\* the calendar days birth.date() .. end.date() of a baby (the while loop
\* of lines 1352-1366, 1565-1569); none when birth does not resolve
StayDays(baby, now) ==
    LET birth_dt == convert_unix_to_datetime(Get(baby, "dateOfBirth", NoTs))
        discharge_dt == convert_unix_to_datetime(
                            TsOr(Get(baby, "lastDischargeDate", NoTs),
                                 Get(baby, "dischargeDate", NoTs)))
        end_dt == IF discharge_dt.ok THEN discharge_dt ELSE [ok |-> TRUE, t |-> now]
    IN  IF birth_dt.ok THEN DateOf(birth_dt)..DateOf(end_dt) ELSE {}

\* pod of an eligible baby is empty, 'nan', 'none', 'null' or an inborn
\* label (lines 1222-1226); placeOfDelivery values are lower-case here
SandboxInborn(baby) ==
    Get(baby, "placeOfDelivery", "") \in
        {"", None, "nan", "none", "null", "hospital"} \cup InbornLabels

\* days of one baby towards m3_baby_days (lines 1237-1255)
BabyDays(baby, now) ==
    LET birth_date == convert_unix_to_datetime(Get(baby, "dateOfBirth", NoTs))
        discharge_date == convert_unix_to_datetime(
                              TsOr(Get(baby, "lastDischargeDate", NoTs),
                                   Get(baby, "dischargeDate", NoTs)))
        end_t == IF discharge_date.ok THEN discharge_date.t ELSE now
    IN  IF birth_date.ok THEN Max(1, (end_t - birth_date.t) \div MinutesPerDay) ELSE 0

RECURSIVE SumBabyDays(_, _, _)
SumBabyDays(eligible_babies, now, i) ==
    IF i > Len(eligible_babies) THEN 0
    ELSE BabyDays(eligible_babies[i], now) + SumBabyDays(eligible_babies, now, i + 1)

\* referred or transferred less than 24 h after birth (lines 1276-1283)
EarlyTransfer(baby) ==
    LET d_type == StrLower(Get(baby, "lastDischargeStatus", EmptyStr))
        birth_dt == convert_unix_to_datetime(Get(baby, "dateOfBirth", NoTs))
        disch_dt == convert_unix_to_datetime(Get(baby, "lastDischargeDate", NoTs))
    IN  /\ Contains(d_type, s_refer) \/ Contains(d_type, s_transfer)
        /\ birth_dt.ok /\ disch_dt.ok
        /\ disch_dt.t - birth_dt.t < 24 * 60

\* status in ['completed', 'contacted']
Contacted(f) ==
    StrLower(Get(f, "followUpStatus", EmptyStr)) \in {s_completed, s_contacted}

\* the bin of a day with the given KMC minutes (lines 1355-1362)
KmcBin(minutes) ==
    IF minutes < 2 * 60 THEN "0-2h"
    ELSE IF minutes < 8 * 60 THEN "2-8h"
    ELSE IF minutes < 12 * 60 THEN "8-12h"
    ELSE "12h+"

calculate_sandbox_system_metrics(babies, discharges, followups, sessions, now) ==
    LET after == BabiesAfter(babies, "system", followups, sessions)
        eligible_babies == SelectSeq(after, is_eligible_system)
        eligible_followups == EligibleEntries(eligible_babies, "followUp", followups)
        eligible_sessions == EligibleEntries(eligible_babies, "kmc_sessions", sessions)
        m1_registered == CountIf(eligible_babies, SandboxInborn)
        m2_admitted == Len(eligible_babies)
        InProgram(b) == IsTrue(b, "babyInProgram")
        m6_completeness_num == CountIf(eligible_babies, InProgram)
        EarlyInborn(b) == SandboxInborn(b) /\ EarlyTransfer(b)
        early_transfer_count == CountIf(eligible_babies, EarlyInborn)
        due_counts == [num \in {7, 14, 21, 28} |->
                         LET Due(f) == Get(f, "followUpNumber", 0) = num
                         IN  CountIf(eligible_followups, Due)]
        contact_counts == [num \in {7, 14, 21, 28} |->
                             LET Hit(f) == Get(f, "followUpNumber", 0) = num /\ Contacted(f)
                             IN  CountIf(eligible_followups, Hit)]
        daily == DailyKmc(eligible_babies, eligible_sessions, "system")
        visited == UNION { { <<i, curr>> : curr \in StayDays(eligible_babies[i], now) } :
                             i \in DOMAIN eligible_babies }
        Minutes(p) == Get(daily.map, <<Get(eligible_babies[p[1]], "UID", None), p[2]>>, 0)
        kmc_days_bins == [b \in {"0-2h", "2-8h", "8-12h", "12h+"} |->
                            Cardinality({p \in visited : KmcBin(Minutes(p)) = b})]
        total_analyzed_days == Cardinality(visited)
    IN  [raised |-> daily.raised,
         daily_kmc_map |-> daily.map,
         m1_registered |-> m1_registered,
         m2_admitted |-> m2_admitted,
         m3_baby_days |-> SumBabyDays(eligible_babies, now, 1),
         m4_identified |-> m2_admitted,
         m5_coverage_pct |-> <<100, 1>>,
         m5_coverage_num |-> m2_admitted,
         m5_coverage_denom |-> m1_registered,
         m6_completeness_pct |-> Times100(safe_div(m6_completeness_num, m2_admitted)),
         m6_completeness_num |-> m6_completeness_num,
         m6_completeness_denom |-> m2_admitted,
         m7_early_transfer_pct |-> Times100(safe_div(early_transfer_count, m1_registered)),
         m7_early_transfer_num |-> early_transfer_count,
         m7_early_transfer_denom |-> m1_registered,
         m8_unstable_pct |-> Zero,
         m8_unstable_num |-> 0,
         m8_unstable_denom |-> m2_admitted,
         m9_d7_pct |-> Times100(safe_div(contact_counts[7], due_counts[7])),
         m9_d7_num |-> contact_counts[7],
         m9_d7_denom |-> due_counts[7],
         m10_d14_pct |-> Times100(safe_div(contact_counts[14], due_counts[14])),
         m10_d14_num |-> contact_counts[14],
         m10_d14_denom |-> due_counts[14],
         m11_d21_pct |-> Times100(safe_div(contact_counts[21], due_counts[21])),
         m11_d21_num |-> contact_counts[21],
         m11_d21_denom |-> due_counts[21],
         m12_d28_pct |-> Times100(safe_div(contact_counts[28], due_counts[28])),
         m12_d28_num |-> contact_counts[28],
         m12_d28_denom |-> due_counts[28],
         m13_distribution |->
             [b \in {"0-2h", "2-8h", "8-12h", "12h+"} |->
                 Times100(safe_div(kmc_days_bins[b], total_analyzed_days))],
         m13_counts |-> kmc_days_bins,
         m13_total_days |-> total_analyzed_days,
         eligible_babies_list |-> eligible_babies]

\* (s.get('kmcDuration') or 0) > 0
HasDuration(s) == Get(s, "kmcDuration", 0) > 0

\* babies_with_kmc (lines 1478-1487)
BabiesWithKmc(eligible_babies, eligible_sessions) ==
    { EntryUid(eligible_sessions[i]) :
        i \in { j \in DOMAIN eligible_sessions : HasDuration(eligible_sessions[j]) } }
    \cup { Get(eligible_babies[i], "UID", None) :
             i \in { j \in DOMAIN eligible_babies :
                       \E k \in DOMAIN Get(eligible_babies[j], "age_days", <<>>) :
                           Get(eligible_babies[j].age_days[k], "totalKMCToday", 0) > 0 } }

\* baby_first_kmc, session part, from session i on (lines 1497-1502)
RECURSIVE FirstKmcSessions(_, _, _)
FirstKmcSessions(eligible_sessions, i, first) ==
    IF i > Len(eligible_sessions) THEN first
    ELSE LET s == eligible_sessions[i]
             bid == EntryUid(s)
             start == convert_unix_to_datetime(Get(s, "kmcStart", NoTs))
         IN  FirstKmcSessions(eligible_sessions, i + 1,
                IF /\ Truthy(bid) /\ start.ok
                   /\ (bid \notin DOMAIN first \/ start.t < first[bid])
                THEN (bid :> start.t) @@ first
                ELSE first)

\* baby_first_kmc, age_days part, from entry i on (lines 1505-1512)
RECURSIVE FirstKmcAgeDays(_, _, _)
FirstKmcAgeDays(entries, i, first) ==
    IF i > Len(entries) THEN first
    ELSE LET bid == entries[i].bid
             day == entries[i].day
             d == convert_unix_to_datetime(Get(day, "ageDayDate", NoTs))
         IN  FirstKmcAgeDays(entries, i + 1,
                IF /\ Get(day, "totalKMCToday", 0) > 0 /\ d.ok
                   /\ (bid \notin DOMAIN first \/ d.t < first[bid])
                THEN (bid :> d.t) @@ first
                ELSE first)

\* babies_init_24h (lines 1514-1522)
BabiesInit24h(eligible_babies, baby_first_kmc) ==
    { Get(eligible_babies[i], "UID", None) :
        i \in { j \in DOMAIN eligible_babies :
                  LET bid == Get(eligible_babies[j], "UID", None)
                      birth_dt == convert_unix_to_datetime(
                                      Get(eligible_babies[j], "dateOfBirth", NoTs))
                  IN  /\ bid \in DOMAIN baby_first_kmc /\ birth_dt.ok
                      /\ baby_first_kmc[bid] - birth_dt.t <= 24 * 60 } }

RECURSIVE SumValues(_, _)
SumValues(map, keys) ==
    IF keys = {} THEN 0
    ELSE LET key == CHOOSE k \in keys : TRUE
         IN  map[key] + SumValues(map, keys \ {key})

RECURSIVE SumStayDays(_, _, _)
SumStayDays(eligible_babies, now, i) ==
    IF i > Len(eligible_babies) THEN 0
    ELSE Cardinality(StayDays(eligible_babies[i], now))
           + SumStayDays(eligible_babies, now, i + 1)

\* discharged and not dead and neither referred nor transferred (lines
\* 1597-1601)
DischargedAlive(baby) ==
    LET status == StrLower(Get(baby, "lastDischargeStatus", EmptyStr))
    IN  /\ IsTrue(baby, "discharged") /\ ~IsTrue(baby, "deadBaby")
        /\ ~Contains(status, s_refer) /\ ~Contains(status, s_transfer)

DischargedCritical(baby) ==
    /\ DischargedAlive(baby)
    /\ Contains(StrLower(Get(baby, "lastDischargeStatus", EmptyStr)), s_critical)

\* (f.get('kmcHoursCount') or f.get('totalKMCTime') or 0) > 0
FollowupKmc(f) ==
    (IF Get(f, "kmcHoursCount", 0) # 0 THEN f.kmcHoursCount ELSE Get(f, "totalKMCTime", 0)) > 0

\* f.get('readmitted') or f.get('sickVisit')
FollowupCare(f) == IsTrue(f, "readmitted") \/ IsTrue(f, "sickVisit")

calculate_sandbox_program_metrics(babies, discharges, followups, sessions, now) ==
    LET after == BabiesAfter(babies, "program", followups, sessions)
        eligible_babies == SelectSeq(after, is_eligible_program)
        eligible_sessions == EligibleEntries(eligible_babies, "kmc_sessions", sessions)
        eligible_followups == EligibleEntries(eligible_babies, "followUp", followups)
        m1_any_init_num == Cardinality(BabiesWithKmc(eligible_babies, eligible_sessions))
        den == Len(eligible_babies)
        baby_first_kmc ==
            FirstKmcAgeDays(AgeDayEntries(eligible_babies, "program", 1), 1,
                            FirstKmcSessions(eligible_sessions, 1, <<>>))
        m2_init_24h_num == Cardinality(BabiesInit24h(eligible_babies, baby_first_kmc))
        daily == DailyKmc(eligible_babies, eligible_sessions, "program")
        kmc_per_day == daily.map
        total_kmc_minutes == SumValues(kmc_per_day, DOMAIN kmc_per_day)
        total_baby_days == SumStayDays(eligible_babies, now, 1)
        days_with_12h == Cardinality({k \in DOMAIN kmc_per_day : kmc_per_day[k] >= 12 * 60})
        discharged_alive_count == CountIf(eligible_babies, DischargedAlive)
        critical_count == CountIf(eligible_babies, DischargedCritical)
        D7(f) == Contacted(f) /\ Get(f, "followUpNumber", 0) \in {1, 7}
        D28(f) == Contacted(f) /\ Get(f, "followUpNumber", 0) \in {2, 28}
        D7Kmc(f) == D7(f) /\ FollowupKmc(f)
        D7Care(f) == D7(f) /\ FollowupCare(f)
        D28Kmc(f) == D28(f) /\ FollowupKmc(f)
        D28Care(f) == D28(f) /\ FollowupCare(f)
        fu_d7_contacted == CountIf(eligible_followups, D7)
        fu_d28_contacted == CountIf(eligible_followups, D28)
    IN  [raised |-> daily.raised,
         kmc_per_day |-> kmc_per_day,
         m1_any_init_pct |-> Times100(safe_div(m1_any_init_num, den)),
         m1_any_init_num |-> m1_any_init_num,
         m1_any_init_den |-> den,
         m2_init_24h_pct |-> Times100(safe_div(m2_init_24h_num, den)),
         m2_init_24h_num |-> m2_init_24h_num,
         m2_init_24h_den |-> den,
         m3_mean_daily_kmc |->
             IF total_baby_days # 0 THEN Frac(total_kmc_minutes, 60 * total_baby_days)
             ELSE Zero,
         m4_days_12h_pct |-> Times100(safe_div(days_with_12h, total_baby_days)),
         m4_days_12h_num |-> days_with_12h,
         m4_days_12h_den |-> total_baby_days,
         m5_exclusive_pct |-> Zero,
         m5_exclusive_num |-> 0,
         m5_exclusive_den |-> total_baby_days,
         m6_hypo_pct |-> Zero,
         m6_hypo_num |-> 0,
         m6_hypo_den |-> 0,
         m7_critical_pct |-> Times100(safe_div(critical_count, discharged_alive_count)),
         m7_critical_num |-> critical_count,
         m7_critical_den |-> discharged_alive_count,
         m8_counselling_score |-> Zero,
         m9_kmc_cont_d7_pct |->
             Times100(safe_div(CountIf(eligible_followups, D7Kmc), fu_d7_contacted)),
         m9_kmc_cont_d7_num |-> CountIf(eligible_followups, D7Kmc),
         m9_kmc_cont_d7_den |-> fu_d7_contacted,
         m10_kmc_cont_d28_pct |->
             Times100(safe_div(CountIf(eligible_followups, D28Kmc), fu_d28_contacted)),
         m10_kmc_cont_d28_num |-> CountIf(eligible_followups, D28Kmc),
         m10_kmc_cont_d28_den |-> fu_d28_contacted,
         m11_care_d7_pct |->
             Times100(safe_div(CountIf(eligible_followups, D7Care), fu_d7_contacted)),
         m11_care_d7_num |-> CountIf(eligible_followups, D7Care),
         m11_care_d7_den |-> fu_d7_contacted,
         m12_care_d28_pct |->
             Times100(safe_div(CountIf(eligible_followups, D28Care), fu_d28_contacted)),
         m12_care_d28_num |-> CountIf(eligible_followups, D28Care),
         m12_care_d28_den |-> fu_d28_contacted,
         m13_adverse_events |-> 0,
         eligible_babies_list |-> eligible_babies]

---------------------------------------------------------------------------
(* dashboard_firebase._reconstruct_baby_structure: the legacy baby with    *)
(* its observationDay list, built from the normalized collections.  A     *)
(* document reference is its path, a sequence of segments; a verification *)
(* flag is True, False, None or a string.                                  *)

\* an ageDay / ageDayNumber holding None
NoAgeDay == -1

NoRef == [kind |-> "none", path |-> <<>>]

StrRef(path) == [kind |-> "str", path |-> path]

DictRef(path) == [kind |-> "dict", path |-> path]

\* bid_ref.get('__ref__', '').split('/')[-1] or bid_ref.split('/')[-1]; ''
\* for any other value (lines 261-266)
RefId(doc) ==
    LET bid_ref == Get(doc, "idBaby", DictRef(<<>>))
    IN  IF bid_ref.kind \in {"dict", "str"} /\ bid_ref.path # <<>>
        THEN bid_ref.path[Len(bid_ref.path)]
        ELSE ""

\* age_days_by_baby[bid], kmc_sessions_by_baby[bid], observations_by_baby[bid]
ByBaby(docs, bid) ==
    LET Mine(doc) == RefId(doc) # "" /\ RefId(doc) = bid
    IN  SelectSeq(docs, Mine)

FlagNone == [kind |-> "none", b |-> FALSE, s |-> <<>>]

FlagTrue == [kind |-> "bool", b |-> TRUE, s |-> <<>>]

FlagFalse == [kind |-> "bool", b |-> FALSE, s |-> <<>>]

FlagStr(s) == [kind |-> "str", b |-> FALSE, s |-> s]

s_correct == <<"c", "o", "r", "r", "e", "c", "t">>

s_incorrect == <<"i", "n">> \o s_correct

\* session_obj (lines 341-346)
SessionObj(sess) ==
    [id |-> "doc",
     timeStartKMC |-> Get(sess, "kmcStart", NoTs),
     timeEndKMC |-> Get(sess, "kmcEnd", NoTs),
     duration |-> Get(sess, "kmcDuration", NoAgeDay),
     provider |-> Get(sess, "kmcProvider", None)]

\* the first document of docs whose field key is day_num, as a sequence of
\* at most one element: next((...), None)
FirstOfDay(docs, key, day_num) ==
    LET OfDay(doc) == Get(doc, key, NoAgeDay) = day_num
        found == SelectSeq(docs, OfDay)
    IN  IF found = <<>> THEN <<>> ELSE <<found[1]>>

\* day_obj of one day number (lines 321-364)
DayObj(day_num, relevant_age_days, relevant_kmc, relevant_obs) ==
    LET day_record == FirstOfDay(relevant_age_days, "ageDayNumber", day_num)
        OfDay(k) == Get(k, "ageDay", NoAgeDay) = day_num
        day_sessions == SelectSeq(relevant_kmc, OfDay)
        day_obs == FirstOfDay(relevant_obs, "ageDay", day_num)
        status == IF day_obs = <<>> THEN EmptyStr
                  ELSE lower(Get(day_obs[1], "verificationStatus", EmptyStr))
        flag == IF status = s_correct THEN FlagTrue
                ELSE IF status = s_incorrect THEN FlagFalse
                ELSE FlagNone
    IN  [id |-> "doc",
         ageDay |-> day_num,
         totalKMCtimeDay |->
             IF day_record = <<>> THEN 0 ELSE Get(day_record[1], "totalKMCToday", 0),
         timeInKMC |-> [j \in DOMAIN day_sessions |-> SessionObj(day_sessions[j])],
         filledCorrectly |-> flag,
         kmcfilledcorrectly |-> flag,
         mnecomment |->
             IF day_obs = <<>> THEN EmptyStr
             ELSE Get(day_obs[1], "verificationNotes", EmptyStr),
         date |-> IF day_record = <<>> THEN NoTs
                  ELSE Get(day_record[1], "ageDayDate", NoTs)]
       @@ (IF day_obs = <<>> THEN [id |-> "doc"]
           ELSE [id |-> "doc",
                 temperature |-> Get(day_obs[1], "temperature", NoNum),
                 RR |-> Get(day_obs[1], "RR", NoNum)])

\* all_day_nums without None (lines 316-321)
DayNums(relevant_age_days, relevant_kmc, relevant_obs) ==
    ({ Get(relevant_age_days[j], "ageDayNumber", NoAgeDay) : j \in DOMAIN relevant_age_days }
       \cup { Get(relevant_kmc[j], "ageDay", NoAgeDay) : j \in DOMAIN relevant_kmc }
       \cup { Get(relevant_obs[j], "ageDay", NoAgeDay) : j \in DOMAIN relevant_obs })
    \ {NoAgeDay}

\* a set of numbers as the sorted list
RECURSIVE Sorted(_)
Sorted(S) ==
    IF S = {} THEN <<>>
    ELSE LET least == CHOOSE x \in S : \A y \in S : x <= y
         IN  <<least>> \o Sorted(S \ {least})

\* new_baby (lines 299-367)
NewBaby(baby, age_days_data, kmc_sessions_data, observations_data) ==
    LET formatted_baby_id == Get(baby, "id", None)
        relevant_age_days == ByBaby(age_days_data, formatted_baby_id)
        relevant_kmc == ByBaby(kmc_sessions_data, formatted_baby_id)
        relevant_obs == ByBaby(observations_data, formatted_baby_id)
        days == Sorted(DayNums(relevant_age_days, relevant_kmc, relevant_obs))
    IN  [dateOfBirth |-> Get(baby, "birthDate", NoTs),
         currentLocationOfTheBaby |-> Get(baby, "lastLocationBaby", None),
         observationDay |->
             [j \in DOMAIN days |->
                 DayObj(days[j], relevant_age_days, relevant_kmc, relevant_obs)]]
        @@ baby

\* day_obs.get('verificationStatus', '').lower() on a status that is None
\* raises AttributeError (line 352)
ReconstructRaises(babies_data, age_days_data, kmc_sessions_data, observations_data) ==
    \E i \in DOMAIN babies_data :
        LET bid == Get(babies_data[i], "id", None)
            relevant_obs == ByBaby(observations_data, bid)
            days == DayNums(ByBaby(age_days_data, bid), ByBaby(kmc_sessions_data, bid),
                            relevant_obs)
        IN  \E day_num \in days :
                LET day_obs == FirstOfDay(relevant_obs, "ageDay", day_num)
                IN  /\ day_obs # <<>>
                    /\ Get(day_obs[1], "verificationStatus", EmptyStr) = NoneStr

reconstruct_baby_structure(babies_data, age_days_data, kmc_sessions_data, observations_data) ==
    IF ReconstructRaises(babies_data, age_days_data, kmc_sessions_data, observations_data)
    THEN [raised |-> TRUE, babies |-> <<>>]
    ELSE [raised |-> FALSE,
          babies |-> [i \in DOMAIN babies_data |->
                        NewBaby(babies_data[i], age_days_data, kmc_sessions_data,
                                observations_data)]]

---------------------------------------------------------------------------
(* kmc_dashboard.calculate_kmc_verification_monitoring *)

\* text.strip(), for blanks
RECURSIVE strip(_)
strip(text) ==
    IF text = <<>> THEN text
    ELSE IF Head(text) = " " THEN strip(Tail(text))
    ELSE IF text[Len(text)] = " " THEN strip(SubSeq(text, 1, Len(text) - 1))
    ELSE text

s_true == <<"t", "r", "u", "e">>

s_false == <<"f", "a", "l", "s", "e">>

s_unable == <<"u", "n", "a", "b", "l", "e">>

\* the same with the flags read before the comment
VerificationStatus_flagsfirst(obs_day) ==
    LET filled_correctly == Get(obs_day, "filledCorrectly", FlagNone)
        mne_comment == Get(obs_day, "mnecomment", EmptyStr)
    IN  IF filled_correctly = FlagTrue THEN "correct"
        ELSE IF filled_correctly = FlagFalse THEN "incorrect"
        ELSE IF mne_comment \notin {EmptyStr, NoneStr} /\ strip(mne_comment) # EmptyStr
        THEN "incorrect"
        ELSE "not_verified"

\* status of one observation day (lines 195-221)
VerificationStatus(obs_day) ==
    LET filled_correctly == Get(obs_day, "filledCorrectly", FlagNone)
        kmc_filled_correctly == Get(obs_day, "kmcfilledcorrectly", FlagNone)
        mne_comment == Get(obs_day, "mnecomment", EmptyStr)
        kmc_lower == lower(kmc_filled_correctly.s)
    IN  IF mne_comment \notin {EmptyStr, NoneStr} /\ strip(mne_comment) # EmptyStr
        THEN "incorrect"
        ELSE IF filled_correctly = FlagTrue THEN "correct"
        ELSE IF filled_correctly = FlagFalse THEN "incorrect"
        ELSE IF kmc_filled_correctly = FlagTrue THEN "correct"
        ELSE IF kmc_filled_correctly = FlagFalse THEN "incorrect"
        ELSE IF kmc_filled_correctly.kind = "str" /\ kmc_filled_correctly.s # EmptyStr
        THEN IF kmc_lower \in {s_correct, s_true} THEN "correct"
             ELSE IF kmc_lower \in {s_incorrect, s_false} THEN "incorrect"
             ELSE IF Contains(kmc_lower, s_unable) THEN "unable_to_verify"
             ELSE "not_verified"
        ELSE "not_verified"

\* a row of detailed_data (lines 225-235)
VerificationRow(baby, obs_day) ==
    [UID |-> baby.UID,
     hospitalName |-> Get(baby, "hospitalName", Unknown),
     observationDate |-> Get(obs_day, "date", [kind |-> "unknown", v |-> 0]),
     ageDay |-> Get(obs_day, "ageDay", NoAgeDay),
     status |-> VerificationStatus(obs_day),
     filledCorrectly |-> Get(obs_day, "filledCorrectly", FlagNone),
     kmcfilledcorrectly |-> Get(obs_day, "kmcfilledcorrectly", FlagNone),
     mnecomment |-> Get(obs_day, "mnecomment", EmptyStr)]

\* the loop over baby_data from baby i on (lines 180-235)
RECURSIVE VerificationLoop(_, _, _)
VerificationLoop(babies, i, st) ==
    IF i > Len(babies) THEN st
    ELSE LET baby == babies[i]
             uid == Get(baby, "UID", None)
             observation_days == Get(baby, "observationDay", <<>>)
         IN  IF ~Truthy(uid) \/ uid \in st.processed_uids
             THEN VerificationLoop(babies, i + 1, st)
             ELSE VerificationLoop(babies, i + 1,
                    [processed_uids |-> st.processed_uids \cup {uid},
                     detailed_data |-> st.detailed_data \o
                         [j \in DOMAIN observation_days |->
                             VerificationRow(baby, observation_days[j])]])

calculate_kmc_verification_monitoring(babies) ==
    LET st == VerificationLoop(babies, 1, [processed_uids |-> {}, detailed_data |-> <<>>])
        Count(status) ==
            Cardinality({ j \in DOMAIN st.detailed_data :
                            st.detailed_data[j].status = status })
    IN  [verification_stats |->
             [correct |-> Count("correct"),
              incorrect |-> Count("incorrect"),
              unable_to_verify |-> Count("unable_to_verify"),
              not_verified |-> Count("not_verified"),
              total_observations |-> Len(st.detailed_data)],
         detailed_data |-> st.detailed_data,
         total_babies |-> Cardinality(st.processed_uids)]

---------------------------------------------------------------------------
(* dashboard_metrics.calculate_average_kmc_by_location: start_date and     *)
(* end_date are calendar days.                                             *)

\* f"{hospital}-{location}"
\* the text of a location name as tokens, a '-' being a token of its own
Tokens(str) == IF str = "PNC-2" THEN <<"PNC", "-", "2">> ELSE <<str>>

\* key = f"{hospital}-{location}" (line 187): the concatenation of the texts
LocationKey(baby) ==
    Get(baby, "hospitalName", Unknown) \o <<"-">>
        \o Tokens(Get(baby, "currentLocationOfTheBaby", "Unknown"))

\* convert_unix_to_datetime(day_date_ts).date() on a conversion that returned
\* None raises AttributeError (line 202)
AgeDayDateRaises(baby) ==
    LET age_days == Get(baby, "age_days", <<>>)
    IN  \E j \in DOMAIN age_days :
            /\ TsTruthy(Get(age_days[j], "ageDayDate", NoTs))
            /\ ~convert_unix_to_datetime(age_days[j].ageDayDate).ok

\* the kmc_minutes one baby adds, one element per counted day (lines 197-221)
KmcMinutesInPeriod(baby, birth_date, start_date, end_date) ==
    LET age_days == Get(baby, "age_days", <<>>)
        InPeriod(day) ==
            LET day_date_ts == Get(day, "ageDayDate", NoTs)
                day_date == DateOf(convert_unix_to_datetime(day_date_ts))
            IN  /\ TsTruthy(day_date_ts)
                /\ start_date <= day_date /\ day_date <= end_date
                /\ Get(day, "totalKMCToday", 0) > 0
        LegacyInPeriod(obs_day) ==
            LET obs_date == DateOf(birth_date) + Get(obs_day, "ageDay", 0)
            IN  /\ Get(obs_day, "ageDay", NoAgeDay) # NoAgeDay
                /\ start_date <= obs_date /\ obs_date <= end_date
                /\ Get(obs_day, "totalKMCtimeDay", 0) > 0
        new == SelectSeq(age_days, InPeriod)
        legacy == IF age_days = <<>> /\ Has(baby, "observationDay")
                  THEN SelectSeq(baby.observationDay, LegacyInPeriod)
                  ELSE <<>>
    IN  [j \in DOMAIN new |-> new[j].totalKMCToday]
          \o [j \in DOMAIN legacy |-> legacy[j].totalKMCtimeDay]

RECURSIVE SumSeq(_, _)
SumSeq(seq, i) == IF i > Len(seq) THEN 0 ELSE seq[i] + SumSeq(seq, i + 1)

\* the loop over baby_data from baby i on (lines 180-224); keys holds the
\* keys of location_hospital_data in insertion order
RECURSIVE LocationLoop(_, _, _, _, _)
LocationLoop(babies, start_date, end_date, i, st) ==
    IF i > Len(babies) \/ st.raised THEN st
    ELSE LET baby == babies[i]
             birth_date == convert_unix_to_datetime(Get(baby, "dateOfBirth", NoTs))
             key == LocationKey(baby)
             old == IF key \in DOMAIN st.data THEN st.data[key]
                    ELSE [hospital |-> Get(baby, "hospitalName", Unknown),
                          location |-> Get(baby, "currentLocationOfTheBaby", "Unknown"),
                          total_kmc_minutes |-> 0, observation_days |-> 0,
                          baby_count |-> 0]
             minutes == KmcMinutesInPeriod(baby, birth_date, start_date, end_date)
         IN  IF ~birth_date.ok
             THEN LocationLoop(babies, start_date, end_date, i + 1, st)
             ELSE IF AgeDayDateRaises(baby) THEN [st EXCEPT !.raised = TRUE]
             ELSE LocationLoop(babies, start_date, end_date, i + 1,
                    [raised |-> FALSE,
                     keys |-> IF key \in DOMAIN st.data THEN st.keys
                              ELSE Append(st.keys, key),
                     data |-> (key :>
                         [old EXCEPT
                            !.total_kmc_minutes = @ + SumSeq(minutes, 1),
                            !.observation_days = @ + Len(minutes),
                            !.baby_count = @ + (IF minutes # <<>> THEN 1 ELSE 0)])
                         @@ st.data])

\* a row of result_data (lines 229-236)
LocationRow(data) ==
    [hospital |-> data.hospital,
     location |-> data.location,
     avg_hours_per_day |-> Frac(data.total_kmc_minutes, data.observation_days * 60),
     avg_hours_per_baby |->
         IF data.baby_count > 0 THEN Frac(data.total_kmc_minutes, data.baby_count * 60)
         ELSE Zero,
     baby_count |-> data.baby_count,
     observation_days |-> data.observation_days]

calculate_average_kmc_by_location(babies, start_date, end_date) ==
    LET st == LocationLoop(babies, start_date, end_date, 1,
                           [raised |-> FALSE, keys |-> <<>>, data |-> <<>>])
        WithDays(key) == st.data[key].observation_days > 0
        kept == SelectSeq(st.keys, WithDays)
    IN  [raised |-> st.raised,
         result_data |-> IF st.raised THEN <<>>
                         ELSE [j \in DOMAIN kept |-> LocationRow(st.data[kept[j]])]]

---------------------------------------------------------------------------
(* dashboard_utils.get_hierarchical_discharge_date *)

\* STEP 1: for discharge in discharges: the date of the first record of
\* the UID whose dischargeDate converts (the loop goes on after a record of
\* the UID whose date does not convert)
RECURSIVE DischargeDateLoop(_, _, _)
DischargeDateLoop(discharges, baby_uid, i) ==
    IF i > Len(discharges) THEN NoneDt
    ELSE LET discharge == discharges[i]
             discharge_date == convert_unix_to_datetime(Get(discharge, "dischargeDate", NoTs))
         IN  IF Get(discharge, "UID", None) = baby_uid /\ discharge_date.ok
             THEN discharge_date
             ELSE DischargeDateLoop(discharges, baby_uid, i + 1)

get_hierarchical_discharge_date(baby, discharges) ==
    LET baby_uid == Get(baby, "UID", None)
        from_discharges == DischargeDateLoop(discharges, baby_uid, 1)
    IN  IF from_discharges.ok THEN from_discharges
        ELSE IF IsTrue(baby, "discharged")
             THEN convert_unix_to_datetime(TsOr(Get(baby, "lastDischargeDate", NoTs),
                                                Get(baby, "dischargeDate", NoTs)))
             ELSE NoneDt

---------------------------------------------------------------------------
(* Input universes *)

Opt(k, vals) == { (k :> v) : v \in vals }

DocId == [id |-> "doc"]

\* birth 100 hours after the epoch; registration relative to it
BirthMin == 100 * 60

RegOffsets == {-60, 12 * 60, 12 * 60 + 1, 24 * 60, 24 * 60 + 1, 30 * 60}

Birth == [kind |-> "sec", v |-> BirthMin]

\* babies with a resolvable birth and registration time
RegTimedBabies ==
    { DocId @@ u @@ p @@ [dateOfBirth |-> Birth,
                          registrationDate |-> [kind |-> "sec", v |-> BirthMin + o]] :
        u \in {DocId} \cup Opt("UID", {"u1", "u2"}),
        p \in Opt("placeOfDelivery", {"this hospital", "other"}),
        o \in RegOffsets }

\* the other shapes of an inborn record: the second label, no place of
\* delivery, no birth, no or an unparseable registration, the nested one
RegOddBabies ==
    { [id |-> "doc", UID |-> "u1", placeOfDelivery |-> "yah aspatal",
       dateOfBirth |-> Birth,
       registrationDate |-> [kind |-> "ms", v |-> BirthMin + 10 * 60]],
      [id |-> "doc", UID |-> "u1", dateOfBirth |-> Birth,
       registrationDate |-> [kind |-> "sec", v |-> BirthMin + 10 * 60]],
      [id |-> "doc", UID |-> "", placeOfDelivery |-> "this hospital",
       dateOfBirth |-> NoTs,
       registrationDate |-> [kind |-> "sec", v |-> BirthMin + 10 * 60]],
      [id |-> "doc", UID |-> "u1", placeOfDelivery |-> "this hospital",
       dateOfBirth |-> Birth],
      [id |-> "doc", UID |-> "u1", placeOfDelivery |-> "this hospital",
       dateOfBirth |-> Birth, registrationDate |-> [kind |-> "bad", v |-> 0]],
      [id |-> "doc", UID |-> "u1", placeOfDelivery |-> "this hospital",
       dateOfBirth |-> Birth, registrationDate |-> [kind |-> "sec", v |-> 0],
       registrationDataType |->
           [registrationDate |-> [kind |-> "iso", v |-> BirthMin + ISTOffset + 10 * 60]]] }

RegBabies == RegTimedBabies \cup RegOddBabies

---------------------------------------------------------------------------
(* Specification: calls of calculate_registration_timeliness *)

NoArgs == [none |-> TRUE]

InitReg ==
    /\ baby_data \in SeqUpTo(RegBabies, MaxBabies)
    /\ discharge_data = <<>>
    /\ args = NoArgs
    /\ called = "none"
    /\ result = NoArgs

CallRegistrationTimeliness ==
    /\ called = "none"
    /\ called' = "calculate_registration_timeliness"
    /\ result' = calculate_registration_timeliness(baby_data)
    /\ UNCHANGED <<baby_data, discharge_data, args>>

NextReg == CallRegistrationTimeliness

SpecReg == InitReg /\ [][NextReg]_vars

---------------------------------------------------------------------------
(* Claims about calculate_registration_timeliness (SpecReg) *)

HasUid(r) == Truthy(Get(r, "UID", None))

\* the list with only the first record of each UID retained
RECURSIVE FirstPerUID(_)
FirstPerUID(recs) ==
    IF recs = <<>> THEN <<>>
    ELSE LET n == Len(recs)
             front == SubSeq(recs, 1, n - 1)
         IN  IF /\ HasUid(recs[n])
                /\ \E j \in 1..(n - 1) : Get(front[j], "UID", None) = recs[n].UID
             THEN FirstPerUID(front)
             ELSE Append(FirstPerUID(front), recs[n])

\* the list without the records that lack a UID
WithUid(recs) == SelectSeq(recs, HasUid)

RegCalled == called = "calculate_registration_timeliness"

\* C1: an aggregator run on a list in which a UID occurs in several records
\* returns what it returns on the list with only the first record of each
\* UID retained (here: calculate_registration_timeliness).
C1_DedupIdempotent ==
    RegCalled =>
        result = calculate_registration_timeliness(FirstPerUID(baby_data))

\* C2: records without a UID are counted in no numerator or denominator:
\* the counts are those of the list without the UID-less records
\* (here: total_inborn and the two counts of calculate_registration_timeliness).
C2_NoUidNotCounted ==
    RegCalled =>
        LET r == calculate_registration_timeliness(WithUid(baby_data))
        IN  /\ result.total_inborn = r.total_inborn
            /\ result.within_24h_count = r.within_24h_count
            /\ result.within_12h_count = r.within_12h_count

InbornIdx == {i \in DOMAIN baby_data : IsInborn(baby_data[i])}

\* C6: only inborn babies are counted; an inborn baby with both times is in
\* within_24h_count iff its difference is <= 24 h and in within_12h_count iff
\* it is <= 12 h, so within_12h_count <= within_24h_count <= total_inborn.
C6_RegistrationBuckets ==
    RegCalled =>
        /\ result.total_inborn = Cardinality(InbornIdx)
        /\ result.within_24h_count =
             Cardinality({i \in InbornIdx : RegTimed(baby_data[i])
                                            /\ RegDiff(baby_data[i]) <= 24 * 60})
        /\ result.within_12h_count =
             Cardinality({i \in InbornIdx : RegTimed(baby_data[i])
                                            /\ RegDiff(baby_data[i]) <= 12 * 60})
        /\ result.within_12h_count <= result.within_24h_count
        /\ result.within_24h_count <= result.total_inborn

\* C7: an inborn baby registered before its birth (negative difference) is
\* counted in within_12h_count and in within_24h_count.
C7_NegativeDiffCounted ==
    RegCalled =>
        LET early == {i \in InbornIdx : RegTimed(baby_data[i])
                                        /\ RegDiff(baby_data[i]) < 0}
        IN  /\ result.within_12h_count >= Cardinality(early)
            /\ result.within_24h_count >= Cardinality(early)

---------------------------------------------------------------------------
(* Specification: calls of categorize_discharge *)

s_Critical == <<"C", "r", "i", "t", "i", "c", "a", "l">>
s_STABLE == <<"S", "T", "A", "B", "L", "E">>
s_Home == <<"H", "o", "m", "e">>
s_REFERRED == <<"R", "E", "F", "E", "R", "R", "E", "D">>
s_Died == <<"D", "i", "e", "d">>
s_unknown == <<"u", "n", "k", "n", "o", "w", "n">>
s_home_sp == <<"h", "o", "m", "e", " ">>

StatusStrings == {EmptyStr, s_critical, s_Critical, s_stable, s_STABLE, s_unknown}

TypeStrings == {EmptyStr, s_home, s_Home, s_home_sp, s_referred, s_REFERRED,
                s_died, s_Died, s_unknown}

CatSources == {"discharges", "baby", "babyBackUp"}

\* stands for an absent key in the pairs below
AbsentKey == <<"<absent>">>

\* the record of a source that holds the (status, type) pair
CatRecord(source, st, ty) ==
    IF source = "discharges"
    THEN DocId @@ (IF st = AbsentKey THEN DocId ELSE [dischargeStatus |-> st])
               @@ (IF ty = AbsentKey THEN DocId ELSE [dischargeType |-> ty])
    ELSE DocId @@ (IF st = AbsentKey THEN DocId ELSE [lastDischargeStatus |-> st])
               @@ (IF ty = AbsentKey THEN DocId ELSE [lastDischargeType |-> ty])

CatRecords ==
    { CatRecord(f, st, ty) : f \in {"discharges", "baby"},
                             st \in StatusStrings \cup {NoneStr, AbsentKey},
                             ty \in TypeStrings \cup {NoneStr, AbsentKey} }

InitCat ==
    /\ baby_data = <<>>
    /\ discharge_data = <<>>
    /\ args \in [record : CatRecords]
    /\ called = "none"
    /\ result = NoArgs

CallCategorizeDischarge ==
    /\ called = "none"
    /\ \E source \in CatSources \cup {"lrBabies"} :
          /\ args' = [record |-> args.record, source |-> source]
          /\ result' = categorize_discharge(args.record, source)
    /\ called' = "categorize_discharge"
    /\ UNCHANGED <<baby_data, discharge_data>>

NextCat == CallCategorizeDischarge

SpecCat == InitCat /\ [][NextCat]_vars

---------------------------------------------------------------------------
(* Claims about categorize_discharge (SpecCat) *)

CatCalled == called = "categorize_discharge"

CategoryKeys == {"critical_home", "stable_home", "critical_referred", "died", "other"}

\* str equals word up to the case of its letters
SameWord(str, word) ==
    /\ Len(str) = Len(word)
    /\ \A i \in DOMAIN word :
          \/ str[i] = word[i]
          \/ \E k \in DOMAIN LowerChars : LowerChars[k] = word[i] /\ UpperChars[k] = str[i]

\* the table of the specification
CategoryOf(st, ty) ==
    CASE SameWord(st, s_critical) /\ SameWord(ty, s_home) -> "critical_home"
      [] SameWord(st, s_stable) /\ SameWord(ty, s_home) -> "stable_home"
      [] SameWord(st, s_critical) /\ SameWord(ty, s_referred) -> "critical_referred"
      [] SameWord(ty, s_died) -> "died"
      [] OTHER -> "other"

\* the status and type strings the call read from its record
CatStatus ==
    Get(args.record,
        IF args.source = "discharges" THEN "dischargeStatus" ELSE "lastDischargeStatus",
        EmptyStr)

CatType ==
    Get(args.record,
        IF args.source = "discharges" THEN "dischargeType" ELSE "lastDischargeType",
        EmptyStr)

\* C3: for each of the three sources and every pair of status/type strings,
\* categorize_discharge returns the category of the table (compared after
\* lower-casing, died whatever the status, other for every other pair); the
\* result is one of the five keys and is the same for all three sources.
C3_CategorizeTable ==
    (CatCalled /\ args.source \in CatSources
        /\ CatStatus # NoneStr /\ CatType # NoneStr) =>
        /\ result = CategoryOf(CatStatus, CatType)
        /\ result \in CategoryKeys
        /\ \A s2 \in CatSources :
              categorize_discharge(CatRecord(s2, CatStatus, CatType), s2) = result

\* a backup-family record with status 'Critical' and type 'Died' is 'died'
C3_Witness ==
    /\ CatCalled
    /\ args.source = "babyBackUp"
    /\ CatStatus = s_Critical
    /\ CatType = s_Died
    /\ result = "died"

---------------------------------------------------------------------------
(* Specification: calls of calculate_discharge_outcomes *)

\* a primary-family record embeds (stable, home), a backup-family record
\* (critical, referred): the category tells which pool classified a UID
EmbeddedOf(source) ==
    IF source = "baby"
    THEN [lastDischargeStatus |-> s_stable, lastDischargeType |-> s_home]
    ELSE [lastDischargeStatus |-> s_critical, lastDischargeType |-> s_referred]

OutBabies ==
    { [id |-> "doc", UID |-> u, source |-> src, discharged |-> d] @@ EmbeddedOf(src) :
        u \in {"u1", "u2"}, src \in {"baby", "babyBackUp"}, d \in BOOLEAN }
    \cup { [id |-> "doc", source |-> "baby", discharged |-> TRUE] @@ EmbeddedOf("baby") }

OutDischarges ==
    { [id |-> "doc", UID |-> u, dischargeStatus |-> p[1], dischargeType |-> p[2]] :
        u \in {"u1", "u2"}, p \in {<<s_Critical, s_Died>>, <<s_critical, s_home>>} }
    \cup { [id |-> "doc", UID |-> "", dischargeStatus |-> s_stable, dischargeType |-> s_home],
           [id |-> "doc", UID |-> "u3", dischargeStatus |-> s_stable, dischargeType |-> s_home],
           [id |-> "doc", UID |-> "u1", dischargeStatus |-> NoneStr, dischargeType |-> s_home] }

InitOut ==
    /\ baby_data \in SeqUpTo(OutBabies, MaxBabies)
    /\ discharge_data \in SeqUpTo(OutDischarges, MaxDischarges)
    /\ args = NoArgs
    /\ called = "none"
    /\ result = NoArgs

CallDischargeOutcomes ==
    /\ called = "none"
    /\ called' = "calculate_discharge_outcomes"
    /\ result' = calculate_discharge_outcomes(baby_data, discharge_data)
    /\ UNCHANGED <<baby_data, discharge_data, args>>

NextOut == CallDischargeOutcomes

SpecOut == InitOut /\ [][NextOut]_vars

---------------------------------------------------------------------------
(* Claims about calculate_discharge_outcomes (SpecOut) *)

OutCalled == called = "calculate_discharge_outcomes"

\* the first element of seq that satisfies Test, as a one-element-or-empty list
FirstWhere(seq, Test(_)) ==
    LET hits == SelectSeq(seq, Test) IN IF hits = <<>> THEN <<>> ELSE <<hits[1]>>

\* discharged by the collection-priority walk: the category of uid, or "none"
WalkCategory(uid) ==
    LET IsOf(r) == Get(r, "UID", None) = uid
        Embedded(src) ==
            LET T(r) == IsOf(r) /\ IsTrue(r, "discharged") /\ Get(r, "source", None) = src
            IN  FirstWhere(baby_data, T)
        d == FirstWhere(discharge_data, IsOf)
    IN  IF d # <<>> THEN categorize_discharge(d[1], "discharges")
        ELSE IF Embedded("baby") # <<>>
        THEN categorize_discharge(Embedded("baby")[1], "baby")
        ELSE IF Embedded("babyBackUp") # <<>>
        THEN categorize_discharge(Embedded("babyBackUp")[1], "babyBackUp")
        ELSE "none"

DischargedUids == {u \in SelectedBabyUids(baby_data) : WalkCategory(u) # "none"}

\* C4: every discharged UID of baby_data is classified exactly once, from its
\* discharge-collection record, else from the embedded fields of its primary
\* record, else from those of its backup record; total_discharged is the
\* number of distinct discharged UIDs.
C4_OutcomesWalk ==
    (OutCalled /\ ~result.raised) =>
        /\ result.total_discharged = Cardinality(DischargedUids)
        /\ \A k \in CategoryKeys :
              result.categories[k].count =
                  Cardinality({u \in DischargedUids : WalkCategory(u) = k})

---------------------------------------------------------------------------
(* Specification: calls of calculate_detailed_mortality_list *)

DischargeFieldKeys == {"dischargeWeight", "dischargeTemperature", "dischargeRR",
                       "feedMode", "dischargeDangerSigns", "criticalReasons",
                       "dischargeReason"}

BabyFieldKeys == {"dischargeWeight", "babyTemperatureDischarge2", "babyRRdischarge",
                  "whatFeedMode", "howsBabyHealth", "criticalReasons",
                  "dischargeReason"}

\* shadowed fields of a discharge record: all set, all 'N/A', the weight
\* alone, or weight 'N/A' with a null temperature and a feed mode
DischargeProfiles ==
    { [k \in DischargeFieldKeys |-> <<"discharges", k>>],
      [k \in DischargeFieldKeys |-> NA],
      [dischargeWeight |-> <<"discharges", "dischargeWeight">>],
      [dischargeWeight |-> NA, dischargeTemperature |-> Null,
       feedMode |-> <<"discharges", "feedMode">>] }

\* embedded fields of a baby record: all set, or all but the weight
BabyProfiles ==
    { [k \in BabyFieldKeys |-> <<"baby", k>>],
      [k \in BabyFieldKeys \ {"dischargeWeight"} |-> <<"baby", k>>] }

PrioDischarges ==
    { [id |-> "doc", UID |-> "u1"] @@ pr : pr \in DischargeProfiles }
    \cup { [id |-> "doc", UID |-> "u1"],
           [id |-> "doc", UID |-> "u2", feedMode |-> <<"discharges", "feedMode">>] }

PrioBabies ==
    { [id |-> "doc", UID |-> "u1", deadBaby |-> TRUE] @@ pr : pr \in BabyProfiles }
    \cup { [id |-> "doc", UID |-> "u1", deadBaby |-> TRUE],
           [id |-> "doc", UID |-> "u2", deadBaby |-> TRUE,
            whatFeedMode |-> <<"baby", "whatFeedMode">>],
           [id |-> "doc", UID |-> "u1", deadBaby |-> FALSE,
            whatFeedMode |-> NA],
           [id |-> "doc", deadBaby |-> TRUE] }

InitPrio ==
    /\ baby_data \in SeqUpTo(PrioBabies, MaxBabies)
    /\ discharge_data \in SeqUpTo(PrioDischarges, MaxDischarges)
    /\ args = NoArgs
    /\ called = "none"
    /\ result = NoArgs

CallDetailedMortalityList ==
    /\ called = "none"
    /\ called' = "calculate_detailed_mortality_list"
    /\ result' = calculate_detailed_mortality_list(baby_data, discharge_data)
    /\ UNCHANGED <<baby_data, discharge_data, args>>

NextPrio == CallDetailedMortalityList

SpecPrio == InitPrio /\ [][NextPrio]_vars

---------------------------------------------------------------------------
(* Claims about the get_prioritized_* resolvers (SpecPrio) *)

PrioCalled == called = "calculate_detailed_mortality_list"

\* <<column of the row, key in the discharge record, key in the baby record>>
ShadowedFields ==
    { <<"DischargeWeight", "dischargeWeight", "dischargeWeight">>,
      <<"DischargeTemperature", "dischargeTemperature", "babyTemperatureDischarge2">>,
      <<"DischargeRR", "dischargeRR", "babyRRdischarge">>,
      <<"FeedMode", "feedMode", "whatFeedMode">>,
      <<"HowBabyHealth", "dischargeDangerSigns", "howsBabyHealth">>,
      <<"CriticalReason", "criticalReasons", "criticalReasons">>,
      <<"DischargeReason", "dischargeReason", "dischargeReason">> }

\* the record a row was built from: the first dead record of the row's UID
RowBaby(uid) ==
    baby_data[CHOOSE i \in DOMAIN baby_data :
                 /\ IsTrue(baby_data[i], "deadBaby") /\ Get(baby_data[i], "UID", None) = uid
                 /\ \A j \in 1..(i - 1) :
                       ~(IsTrue(baby_data[j], "deadBaby")
                         /\ Get(baby_data[j], "UID", None) = uid)]

\* the column as displayed: the temperature column goes through str()
Shown(f, value) == IF f[1] = "DischargeTemperature" THEN Str(value) ELSE value

\* C5: each resolver returns the matched discharge record's field when the
\* record exists and the field is present and not 'N/A', otherwise the baby
\* record's field, otherwise 'N/A'; without the discharge record the same
\* baby falls back to its embedded value; each field is resolved on its own.
C5_PriorityResolution ==
    (PrioCalled /\ ~result.raised) =>
        LET without == calculate_detailed_mortality_list(baby_data, <<>>)
        IN  /\ Len(without.rows) = Len(result.rows)
            /\ \A i \in DOMAIN result.rows :
                  LET row == result.rows[i]
                      baby == RowBaby(row.UID)
                      md == MatchingDischarge(discharge_data, row.UID)
                  IN  \A f \in ShadowedFields :
                        /\ row[f[1]] =
                             Shown(f, IF md # NoMatch /\ Has(md, f[2]) /\ md[f[2]] # NA
                                      THEN md[f[2]]
                                      ELSE IF Has(baby, f[3]) THEN baby[f[3]] ELSE NA)
                        /\ without.rows[i][f[1]] = Shown(f, Get(baby, f[3], NA))

\* one row takes its weight from the discharge record and its feed mode from
\* the baby record, and falls back to the baby's weight without the record
C5_Witness ==
    /\ PrioCalled
    /\ ~result.raised
    /\ \E i \in DOMAIN result.rows :
          /\ result.rows[i].DischargeWeight = <<"discharges", "dischargeWeight">>
          /\ result.rows[i].FeedMode = <<"baby", "whatFeedMode">>
          /\ calculate_detailed_mortality_list(baby_data, <<>>).rows[i].DischargeWeight
               = <<"baby", "dischargeWeight">>

---------------------------------------------------------------------------
(* Specification: calls of the sandbox metrics *)

Num(n) == [kind |-> "num", v |-> n]

SandboxWeights ==
    {Num(0), Num(2200), Num(2500), Num(3000), [kind |-> "str", v |-> 2200],
     [kind |-> "bad", v |-> 0], [kind |-> "obj", v |-> 0]}

SandboxAges == {Num(0), Num(36), Num(37), Num(40), [kind |-> "bad", v |-> 0]}

SandboxBabies ==
    { [id |-> "doc", UID |-> "u1"] @@ pr @@ w @@ g :
        pr \in Opt("babyInProgram", BOOLEAN),
        w \in {DocId} \cup Opt("birthWeight", SandboxWeights),
        g \in {DocId} \cup Opt("gestationalAge", SandboxAges) }
    \cup { [id |-> "doc", birthWeight |-> Num(2200)],
           [id |-> "doc", UID |-> "", babyInProgram |-> TRUE],
           [id |-> "doc", UID |-> "u2", birthWeight |-> Num(3000),
            gestationalAge |-> Num(40)] }

InitSandbox ==
    /\ baby_data \in SeqUpTo(SandboxBabies, MaxBabies)
    /\ discharge_data = <<>>
    /\ args = NoArgs
    /\ called = "none"
    /\ result = NoArgs

\* followup_data, kmc_session_data and the clock are drawn with the call
SandboxNow == BirthMin + ISTOffset + 50 * 60

SandboxFollowupData ==
    { <<>>, <<[UID |-> "u1", followUpNumber |-> 7, followUpStatus |-> s_completed],
              [idBaby |-> "u2", followUpNumber |-> 7, followUpStatus |-> s_stable]>> }

SandboxSessionData ==
    { <<>>, <<[UID |-> "u1", kmcStart |-> Birth, kmcDuration |-> 90],
              [idBaby |-> "u9", kmcStart |-> Birth, kmcDuration |-> 30]>> }

CallSandboxSystemMetrics ==
    /\ called = "none"
    /\ called' = "calculate_sandbox_system_metrics"
    /\ \E followup_data \in SandboxFollowupData, kmc_session_data \in SandboxSessionData :
         /\ args' = [followup_data |-> followup_data,
                     kmc_session_data |-> kmc_session_data, now |-> SandboxNow]
         /\ result' = calculate_sandbox_system_metrics(
                          baby_data, discharge_data, followup_data, kmc_session_data,
                          SandboxNow)
         /\ baby_data' = BabiesAfter(baby_data, "system", followup_data, kmc_session_data)
    /\ UNCHANGED discharge_data

CallSandboxProgramMetrics ==
    /\ called = "none"
    /\ called' = "calculate_sandbox_program_metrics"
    /\ \E followup_data \in SandboxFollowupData, kmc_session_data \in SandboxSessionData :
         /\ args' = [followup_data |-> followup_data,
                     kmc_session_data |-> kmc_session_data, now |-> SandboxNow]
         /\ result' = calculate_sandbox_program_metrics(
                          baby_data, discharge_data, followup_data, kmc_session_data,
                          SandboxNow)
         /\ baby_data' = BabiesAfter(baby_data, "program", followup_data, kmc_session_data)
    /\ UNCHANGED discharge_data

NextSandbox == CallSandboxSystemMetrics \/ CallSandboxProgramMetrics

SpecSandbox == InitSandbox /\ [][NextSandbox]_vars

---------------------------------------------------------------------------
(* Claims about the sandbox eligibility filter (SpecSandbox) *)

SandboxCalled ==
    called \in {"calculate_sandbox_system_metrics", "calculate_sandbox_program_metrics"}

\* the eligibility rule of the specification
EligibleByRule(baby) ==
    \/ IsTrue(baby, "babyInProgram")
    \/ /\ FloatOk(Get(baby, "birthWeight", NoNum))
       /\ Get(baby, "birthWeight", NoNum).v < 2500
    \/ /\ FloatOk(Get(baby, "gestationalAge", NoNum))
       /\ Get(baby, "gestationalAge", NoNum).v <= 36

\* C8: both sandbox functions select the same eligible set, and a baby is in
\* it iff babyInProgram is true, or birthWeight parses to a number < 2500,
\* or gestationalAge parses to a number <= 36, for every numeric value
\* including 0; a value that fails to parse never makes the baby eligible.
C8_EligibilityRule ==
    SandboxCalled =>
        /\ result.eligible_babies_list = SelectSeq(baby_data, EligibleByRule)
        /\ calculate_sandbox_system_metrics(baby_data, discharge_data,
               args.followup_data, args.kmc_session_data, args.now).eligible_babies_list
             = calculate_sandbox_program_metrics(baby_data, discharge_data,
                 args.followup_data, args.kmc_session_data, args.now).eligible_babies_list

---------------------------------------------------------------------------
(* calculate_nurse_activity on small record lists (SpecNurse) *)

n_asha == <<"asha">>

n_dn == <<"dn">>

h_H1 == <<"H1">>

h_H2 == <<"H2">>

\* the reporting window is days WindowStart..WindowEnd
WindowStart == 10

WindowEnd == 12

InDay == [kind |-> "sec", v |-> 11 * MinutesPerDay]

OutDay == [kind |-> "sec", v |-> 20 * MinutesPerDay]

NurseBabies ==
    { [id |-> "doc", UID |-> "u1", source |-> src, discharged |-> d,
       nurseName |-> n_asha, hospitalName |-> h_H1, lastDischargeDate |-> InDay] :
        src \in {"baby", "babyBackUp"}, d \in BOOLEAN }
    \cup { [id |-> "doc", UID |-> "u1", source |-> src, discharged |-> TRUE,
            nurseName |-> n_asha, hospitalName |-> h_H1,
            lastDischargeDate |-> InDay, dischargeDate |-> OutDay] :
             src \in {"baby", "babyBackUp"} }
    \cup { [id |-> "doc", UID |-> "u2", source |-> "baby", discharged |-> TRUE,
            nurseName |-> n_asha, hospitalName |-> h_H1, lastDischargeDate |-> InDay],
           [id |-> "doc", UID |-> "u1", source |-> "baby", discharged |-> TRUE,
            hospitalName |-> h_H1, lastDischargeDate |-> InDay],
           [id |-> "doc", UID |-> "u1", source |-> "baby", discharged |-> TRUE,
            nurseName |-> n_asha, hospitalName |-> h_H2, lastDischargeDate |-> InDay],
           [id |-> "doc", UID |-> "u1", source |-> "babyBackUp", discharged |-> TRUE,
            nurseName |-> n_asha, hospitalName |-> h_H1],
           [id |-> "doc", source |-> "baby", discharged |-> TRUE,
            nurseName |-> n_asha, hospitalName |-> h_H1, lastDischargeDate |-> InDay] }

NurseDischarges ==
    { [id |-> "doc", UID |-> u, dischargeNurseName |-> n_dn, hospitalName |-> h_H1,
       dischargeDate |-> InDay] : u \in {"u1", "u2", ""} }
    \cup { [id |-> "doc", UID |-> "u1", hospitalName |-> h_H1, dischargeDate |-> InDay],
           [id |-> "doc", UID |-> "u1", dischargeNurseName |-> n_dn, hospitalName |-> h_H1,
            dischargeDate |-> OutDay],
           [id |-> "doc", UID |-> "u1", dischargeNurseName |-> n_dn, hospitalName |-> h_H2,
            dischargeDate |-> InDay] }

InitNurse ==
    /\ baby_data \in SeqUpTo(NurseBabies, MaxBabies)
    /\ discharge_data \in SeqUpTo(NurseDischarges, MaxDischarges)
    /\ args = NoArgs
    /\ called = "none"
    /\ result = NoArgs

CallNurseActivity ==
    /\ called = "none"
    /\ \E selected_hospitals \in {{}, {h_H1}} :
         /\ args' = [start_date |-> WindowStart, end_date |-> WindowEnd,
                     selected_hospitals |-> selected_hospitals]
         /\ result' = calculate_nurse_activity(baby_data, discharge_data, args')
    /\ called' = "calculate_nurse_activity"
    /\ UNCHANGED <<baby_data, discharge_data>>

NextNurse == CallNurseActivity

SpecNurse == InitNurse /\ [][NextNurse]_vars

---------------------------------------------------------------------------
(* Claims about calculate_nurse_activity (SpecNurse) *)

NurseCalled == called = "calculate_nurse_activity"

\* some record of discharge_data counts a discharge for uid
InDischargePool(uid) ==
    \E i \in DOMAIN discharge_data :
        /\ Get(discharge_data[i], "UID", None) = uid
        /\ DischargeCounts(Get(discharge_data[i], "dischargeNurseName", NotSpecified),
                           Get(discharge_data[i], "hospitalName", Unknown),
                           convert_unix_to_datetime(
                               Get(discharge_data[i], "dischargeDate", NoTs)), args)

\* some baby_data record of the given source counts a discharge for uid
InBabyPool(uid, source) ==
    \E i \in DOMAIN baby_data :
        LET baby == baby_data[i]
            first == IF source = "baby" THEN "lastDischargeDate" ELSE "dischargeDate"
            second == IF source = "baby" THEN "dischargeDate" ELSE "lastDischargeDate"
        IN  /\ Get(baby, "UID", None) = uid
            /\ Get(baby, "source", None) = source
            /\ IsTrue(baby, "discharged")
            /\ DischargeCounts(Get(baby, "nurseName", NotSpecified),
                               Get(baby, "hospitalName", Unknown),
                               convert_unix_to_datetime(
                                   TsOr(Get(baby, first, NoTs), Get(baby, second, NoTs))),
                               args)

NurseUids ==
    { u \in { Get(baby_data[i], "UID", None) : i \in DOMAIN baby_data }
            \cup { Get(discharge_data[i], "UID", None) : i \in DOMAIN discharge_data } :
        Truthy(u) }

RECURSIVE SumDischarges(_, _)
SumDischarges(nurse_analysis, keys) ==
    IF keys = {} THEN 0
    ELSE LET key == CHOOSE k \in keys : TRUE
         IN  nurse_analysis[key].discharges
               + SumDischarges(nurse_analysis, keys \ {key})

\* C9: calculate_nurse_activity counts each discharged UID at most once: a
\* UID is counted in the discharges pool if a discharge record counts it,
\* else in the baby pool if a record of source 'baby' counts it, else in
\* the babyBackUp pool; duplicates and later pools never count it again, so
\* the nurses' discharges and the three pool counts both add up to the
\* number of distinct UIDs counted.
C9_DischargeCountedOnce ==
    NurseCalled =>
        LET counts == result.discharge_counts
            total == SumDischarges(result.nurse_analysis, DOMAIN result.nurse_analysis)
        IN  /\ counts.discharge_collection
                 = Cardinality({u \in NurseUids : InDischargePool(u)})
            /\ counts.baby_collection
                 = Cardinality({u \in NurseUids :
                        ~InDischargePool(u) /\ InBabyPool(u, "baby")})
            /\ counts.babybackup_collection
                 = Cardinality({u \in NurseUids :
                        /\ ~InDischargePool(u) /\ ~InBabyPool(u, "baby")
                        /\ InBabyPool(u, "babyBackUp")})
            /\ total = counts.discharge_collection + counts.baby_collection
                         + counts.babybackup_collection
            /\ total = Cardinality(result.processed_discharge_uids)
            /\ result.processed_discharge_uids \subseteq NurseUids

\* two discharge records and a primary baby record of one UID all count,
\* and the UID is counted once, in the discharges pool
C9_Witness ==
    /\ NurseCalled
    /\ Len(discharge_data) = 2
    /\ discharge_data[1] = discharge_data[2]
    /\ InDischargePool("u1")
    /\ InBabyPool("u1", "baby")
    /\ result.discharge_counts = [discharge_collection |-> 1, baby_collection |-> 0,
                                  babybackup_collection |-> 0]

---------------------------------------------------------------------------
(* calculate_death_rates on small record lists (SpecDeath) *)

\* the embedded discharge fields tell the two families apart: a primary
\* record says stable/home, a backup record says critical/referred
DeathBabies ==
    { [id |-> "doc", UID |-> "u1", source |-> src, discharged |-> d, deadBaby |-> dead]
        @@ EmbeddedOf(src) :
        src \in {"baby", "babyBackUp"}, d \in BOOLEAN, dead \in BOOLEAN }
    \cup { [id |-> "doc", UID |-> "u2", source |-> "baby", discharged |-> TRUE,
            deadBaby |-> TRUE] @@ EmbeddedOf("baby"),
           [id |-> "doc", source |-> "baby", discharged |-> TRUE, deadBaby |-> TRUE]
             @@ EmbeddedOf("baby"),
           [id |-> "doc", UID |-> "u1", discharged |-> TRUE, deadBaby |-> TRUE]
             @@ EmbeddedOf("baby") }

DeathDischarges ==
    { [id |-> "doc", UID |-> "u1", dischargeStatus |-> s_Critical, dischargeType |-> s_Died],
      [id |-> "doc", UID |-> "u1", dischargeStatus |-> s_critical, dischargeType |-> s_home],
      [id |-> "doc", UID |-> "u2", dischargeStatus |-> s_critical, dischargeType |-> s_home],
      [id |-> "doc", UID |-> "", dischargeStatus |-> s_stable, dischargeType |-> s_home],
      [id |-> "doc", dischargeStatus |-> s_stable, dischargeType |-> s_home] }

InitDeath ==
    /\ baby_data \in SeqUpTo(DeathBabies, MaxBabies)
    /\ discharge_data \in SeqUpTo(DeathDischarges, MaxDischarges)
    /\ args = NoArgs
    /\ called = "none"
    /\ result = NoArgs

CallDeathRates ==
    /\ called = "none"
    /\ called' = "calculate_death_rates"
    /\ result' = calculate_death_rates(baby_data, discharge_data)
    /\ UNCHANGED <<baby_data, discharge_data, args>>

NextDeath == CallDeathRates

SpecDeath == InitDeath /\ [][NextDeath]_vars

---------------------------------------------------------------------------
(* Claims about calculate_death_rates (SpecDeath) *)

DeathCalled == called = "calculate_death_rates"

\* the UIDs the first loop marks dead
DeadUids ==
    LET seen == DeathFirstSeen(baby_data, 1, {})
    IN  { seen[i].UID : i \in {j \in DOMAIN seen : IsDead(seen[j])} }

\* the category the priority walk gives uid, or "none" when no pool has it
DeathWalkCategory(uid) ==
    LET InDischarges(d) == Get(d, "UID", None) = uid
        Primary(b) == /\ Get(b, "UID", None) = uid /\ IsTrue(b, "discharged")
                      /\ Get(b, "source", "") = "baby"
        BackUp(b) == /\ Get(b, "UID", None) = uid /\ IsTrue(b, "discharged")
                     /\ Get(b, "source", "") = "babyBackUp"
    IN  IF \E i \in DOMAIN discharge_data : InDischarges(discharge_data[i])
        THEN categorize_discharge(FirstWhere(discharge_data, InDischarges)[1], "discharges")
        ELSE IF \E i \in DOMAIN baby_data : Primary(baby_data[i])
        THEN categorize_discharge(FirstWhere(baby_data, Primary)[1], "baby")
        ELSE IF \E i \in DOMAIN baby_data : BackUp(baby_data[i])
        THEN categorize_discharge(FirstWhere(baby_data, BackUp)[1], "babyBackUp")
        ELSE "none"

\* C10: in calculate_death_rates the discharge outcomes of dead babies count
\* each dead UID at most once, with the category of its discharge record if
\* there is one, else of the embedded fields of a discharged primary
\* ('baby') record, else of a discharged backup ('babyBackUp') record,
\* whatever the order of the primary and backup records in baby_data.
C10_DeadOutcomeWalk ==
    DeathCalled /\ ~result.raised =>
        \A c \in CategoryKeys :
            result.discharge_outcomes.categories[c].count
              = Cardinality({u \in DeadUids : DeathWalkCategory(u) = c})

---------------------------------------------------------------------------
(* calculate_kmc_initiation_metrics on small record lists (SpecKmc) *)

\* a timestamp h hours after the birth of Birth
AfterBirth(h) == [kind |-> "sec", v |-> BirthMin + h * 60]

BadTs == [kind |-> "bad", v |-> 0]

KmcSession(h, duration) == [kmcStart |-> AfterBirth(h), kmcDuration |-> duration]

KmcSessionLists ==
    { <<KmcSession(5, 60), KmcSession(30, 90)>>,
      <<KmcSession(30, 90), KmcSession(5, 60)>>,
      <<KmcSession(50, 30)>>,
      <<KmcSession(24, 30), [kmcDuration |-> 20]>>,
      <<KmcSession(-2, 30)>>,
      <<[kmcStart |-> BadTs, kmcDuration |-> 45]>> }

AgeDay(number, minutes, h) ==
    [ageDayNumber |-> number, totalKMCToday |-> minutes, ageDayDate |-> AfterBirth(h)]

AgeDayLists ==
    { <<AgeDay(2, 30, 26), AgeDay(1, 20, 2)>>,
      <<AgeDay(1, 0, 2), AgeDay(2, 30, 49)>>,
      <<[ageDayNumber |-> 1, totalKMCToday |-> 20], AgeDay(2, 30, 26)>>,
      <<[ageDayNumber |-> 1, totalKMCToday |-> 20, ageDayDate |-> BadTs],
        AgeDay(2, 30, 26)>> }

ObservationDays ==
    << [ageDay |-> 3, totalKMCtimeDay |-> 40], [ageDay |-> 1, totalKMCtimeDay |-> 10],
       [ageDay |-> 0, totalKMCtimeDay |-> 0] >>

KmcBabies ==
    { [id |-> "doc", UID |-> "u1", dateOfBirth |-> Birth] @@ place @@ sessions :
        place \in {DocId} \cup Opt("placeOfDelivery", {"this hospital"}),
        sessions \in Opt("kmc_sessions", KmcSessionLists) }
    \cup { [id |-> "doc", UID |-> "u2", dateOfBirth |-> Birth] @@ sessions @@ days :
             sessions \in {DocId} \cup Opt("kmc_sessions", {<<[kmcStart |-> BadTs]>>}),
             days \in Opt("age_days", AgeDayLists) }
    \cup { [id |-> "doc", UID |-> "u3", dateOfBirth |-> Birth,
            observationDay |-> ObservationDays] @@ days :
             days \in {DocId} \cup Opt("age_days", {<<AgeDay(1, 0, 2)>>,
                         <<[ageDayNumber |-> 1, totalKMCToday |-> 20,
                            ageDayDate |-> BadTs]>>}) }
    \cup { [id |-> "doc", UID |-> "u1", dateOfBirth |-> Birth,
            placeOfDelivery |-> "this hospital",
            kmc_sessions |-> <<KmcSession(30, 90)>>,
            age_days |-> <<AgeDay(1, 20, 2)>>, observationDay |-> ObservationDays],
           [id |-> "doc", dateOfBirth |-> Birth, kmc_sessions |-> <<KmcSession(5, 60)>>],
           [id |-> "doc", UID |-> "u2", kmc_sessions |-> <<KmcSession(5, 60)>>],
           [id |-> "doc", UID |-> "u2", dateOfBirth |-> Birth] }

InitKmc ==
    /\ baby_data \in SeqUpTo(KmcBabies, MaxBabies)
    /\ discharge_data = <<>>
    /\ args = NoArgs
    /\ called = "none"
    /\ result = NoArgs

CallKmcInitiationMetrics ==
    /\ called = "none"
    /\ called' = "calculate_kmc_initiation_metrics"
    /\ result' = calculate_kmc_initiation_metrics(baby_data)
    /\ UNCHANGED <<baby_data, discharge_data, args>>

NextKmc == CallKmcInitiationMetrics

SpecKmc == InitKmc /\ [][NextKmc]_vars

---------------------------------------------------------------------------
(* Claims about calculate_kmc_initiation_metrics (SpecKmc) *)

KmcCalled == called = "calculate_kmc_initiation_metrics"

SetMin(S) == CHOOSE m \in S : \A n \in S : m <= n

\* the resolvable session starts of a baby
SessionStarts(baby) ==
    LET kmc_sessions == Get(baby, "kmc_sessions", <<>>)
    IN  { convert_unix_to_datetime(kmc_sessions[j].kmcStart).t :
            j \in { k \in DOMAIN kmc_sessions :
                      /\ Has(kmc_sessions[k], "kmcStart")
                      /\ convert_unix_to_datetime(kmc_sessions[k].kmcStart).ok } }

\* the dated age_days entries with positive totalKMCToday that have the
\* lowest ageDayNumber
LowestPositiveDays(baby) ==
    LET age_days == Get(baby, "age_days", <<>>)
        positive == { j \in DOMAIN age_days :
                        /\ age_days[j].totalKMCToday > 0 /\ Has(age_days[j], "ageDayDate") }
    IN  { convert_unix_to_datetime(age_days[j].ageDayDate) :
            j \in { k \in positive :
                      \A g \in positive : age_days[k].ageDayNumber <= age_days[g].ageDayNumber } }

\* the legacy days of a baby with positive totalKMCtimeDay, as civil minutes
LegacyStarts(baby) ==
    LET observationDay == Get(baby, "observationDay", <<>>)
    IN  { convert_unix_to_datetime(baby.dateOfBirth).t
            + observationDay[j].ageDay * MinutesPerDay :
            j \in { k \in DOMAIN observationDay : observationDay[k].totalKMCtimeDay > 0 } }

\* the set holding the first KMC minute the claim gives a baby, or {}
ClaimedFirstKmc(baby) ==
    IF SessionStarts(baby) # {} THEN {SetMin(SessionStarts(baby))}
    ELSE LET days == { d \in LowestPositiveDays(baby) : d.ok }
         IN  IF days # {} THEN { d.t : d \in days }
             ELSE IF LegacyStarts(baby) # {} THEN {SetMin(LegacyStarts(baby))}
             ELSE {}

\* the babies that get a row: UID, resolvable birth, some first KMC date
HasFirstKmc(baby) ==
    /\ HasUid(baby)
    /\ convert_unix_to_datetime(Get(baby, "dateOfBirth", NoTs)).ok
    /\ ClaimedFirstKmc(baby) # {}

\* C11: calculate_kmc_initiation_metrics gives each baby the minimum
\* resolvable session start whatever the order of the sessions, else the
\* positive age_days entry of lowest ageDayNumber, else the legacy
\* observationDay date; the time to initiation is that date minus birth,
\* counted within 24 h iff <= 24 and within 48 h iff <= 48, so that
\* within_24h_count <= within_48h_count <= total_babies_with_kmc, and
\* inborn_stats.count + outborn_stats.count = total_babies_with_kmc.
C11_FirstKmcResolution ==
    KmcCalled =>
        LET rows == result.initiation_data
            with_kmc == SelectSeq(baby_data, HasFirstKmc)
            Minutes(baby) == SetMin(ClaimedFirstKmc(baby))
                               - convert_unix_to_datetime(baby.dateOfBirth).t
            In24(baby) == Minutes(baby) <= 24 * 60
            In48(baby) == Minutes(baby) <= 48 * 60
        IN  /\ Len(rows) = Len(with_kmc)
            /\ \A i \in DOMAIN rows :
                 /\ rows[i].UID = with_kmc[i].UID
                 /\ rows[i].first_kmc_date.t = SetMin(ClaimedFirstKmc(with_kmc[i]))
                 /\ rows[i].time_to_initiation_hours = Frac(Minutes(with_kmc[i]), 60)
            /\ result.total_babies_with_kmc = Len(with_kmc)
            /\ result.within_24h_count = CountIf(with_kmc, In24)
            /\ result.within_48h_count = CountIf(with_kmc, In48)
            /\ result.within_24h_count <= result.within_48h_count
            /\ result.within_48h_count <= result.total_babies_with_kmc
            /\ Has(result.inborn_stats, "count")
            /\ Has(result.outborn_stats, "count")
            /\ result.inborn_stats.count + result.outborn_stats.count
                 = result.total_babies_with_kmc

---------------------------------------------------------------------------
(* calculate_followup_metrics on small record lists (SpecFollowup) *)

FollowupLists ==
    { <<[followUpNumber |-> 2]>>,
      <<[followUpNumber |-> 7], [followUpNumber |-> 7]>>,
      <<[followUpNumber |-> 3], [followUpNumber |-> 28, followUpDate |-> BadTs]>> }

FollowupBabies ==
    { [id |-> "doc", UID |-> "u1", hospitalName |-> h] @@ dead @@ fu :
        h \in {h_H1, h_H2},
        dead \in {DocId} \cup Opt("deadBaby", {TRUE}),
        fu \in {DocId} \cup Opt("followUp", FollowupLists) }
    \cup { [id |-> "doc", UID |-> "u2", followUp |-> <<[followUpNumber |-> 2]>>] @@ dead :
             dead \in Opt("deadBaby", {TRUE, FALSE}) }
    \cup { [id |-> "doc", hospitalName |-> h_H1, followUp |-> <<[followUpNumber |-> 2]>>] }

InitFollowup ==
    /\ baby_data \in SeqUpTo(FollowupBabies, MaxBabies)
    /\ discharge_data = <<>>
    /\ args = NoArgs
    /\ called = "none"
    /\ result = NoArgs

\* followup_data is not read by the function
CallFollowupMetrics ==
    /\ called = "none"
    /\ called' = "calculate_followup_metrics"
    /\ result' = calculate_followup_metrics(<<>>, baby_data)
    /\ UNCHANGED <<baby_data, discharge_data, args>>

NextFollowup == CallFollowupMetrics

SpecFollowup == InitFollowup /\ [][NextFollowup]_vars

---------------------------------------------------------------------------
(* Claims about calculate_followup_metrics (SpecFollowup) *)

FollowupCalled == called = "calculate_followup_metrics"

\* the babies of the list: the first record of each non-empty UID
FollowupEntities == FirstPerUID(WithUid(baby_data))

\* the claimed eligible and completed counts of a hospital and a number
ClaimedEligible(hospital) ==
    Cardinality({ i \in DOMAIN FollowupEntities :
                    /\ ~IsDead(FollowupEntities[i])
                    /\ Get(FollowupEntities[i], "hospitalName", Unknown) = hospital })

ClaimedCompleted(hospital, number) ==
    Cardinality({ i \in DOMAIN FollowupEntities :
                    /\ ~IsDead(FollowupEntities[i])
                    /\ Get(FollowupEntities[i], "hospitalName", Unknown) = hospital
                    /\ \E j \in DOMAIN Get(FollowupEntities[i], "followUp", <<>>) :
                         FollowupEntities[i].followUp[j].followUpNumber = number })

FollowupNumberOf(type) ==
    FollowupNumbers[CHOOSE k \in DOMAIN FollowupTypes : FollowupTypes[k] = type]

\* C12: calculate_followup_metrics reports, per hospital and follow-up
\* number in {2, 7, 14, 28}, eligible = the distinct-UID babies of the
\* hospital that are not dead and completed = those of them with at least
\* one followUp entry of that number; completed <= eligible in every row
\* and a dead baby is in neither count.
C12_FollowupCounts ==
    FollowupCalled =>
        LET rows == result.hospital_summary
        IN  /\ \A i \in DOMAIN rows :
                 /\ rows[i].eligible = ClaimedEligible(rows[i].hospital)
                 /\ rows[i].completed
                      = ClaimedCompleted(rows[i].hospital, FollowupNumberOf(rows[i].followup_type))
                 /\ rows[i].completed <= rows[i].eligible
            /\ \A h \in {h_H1, h_H2, Unknown} :
                 ClaimedEligible(h) > 0 =>
                     \A k \in DOMAIN FollowupTypes :
                         \E i \in DOMAIN rows :
                             rows[i].hospital = h /\ rows[i].followup_type = FollowupTypes[k]

---------------------------------------------------------------------------
(* _reconstruct_baby_structure and calculate_kmc_verification_monitoring   *)
(* on small collections (SpecReconstruct).  baby_data holds the baby      *)
(* documents; args holds the other collections.                           *)

b1 == StrRef(<<"babies", "b1">>)

b2 == DictRef(<<"babies", "b2">>)

s_needs_review == <<"n", "e", "e", "d", "s", " ", "r", "e", "v", "i", "e", "w">>

s_blank == <<" ">>

\* legacy observation days, as stored before the normalized schema
LegacyDays ==
    << [id |-> "doc", ageDay |-> 1, totalKMCtimeDay |-> 30,
        kmcfilledcorrectly |-> FlagStr(<<"U", "n", "a", "b", "l", "e">>)],
       [id |-> "doc", ageDay |-> 2, kmcfilledcorrectly |-> FlagStr(s_true),
        mnecomment |-> NoneStr],
       [id |-> "doc", ageDay |-> 3, kmcfilledcorrectly |-> FlagFalse],
       [id |-> "doc", ageDay |-> 4, kmcfilledcorrectly |-> FlagStr(s_false)],
       [id |-> "doc", ageDay |-> 5, kmcfilledcorrectly |-> FlagTrue,
        mnecomment |-> s_needs_review] >>

ReconstructBabies ==
    { [id |-> "b1", UID |-> "u1", birthDate |-> Birth, lastLocationBaby |-> "SNCU"],
      [id |-> "b2", UID |-> "u2"],
      [id |-> "b1", UID |-> "u1", hospitalName |-> h_H1],
      [id |-> "b3", UID |-> "u3", observationDay |-> LegacyDays],
      [id |-> "b2"] }

AgeDayDocs ==
    { <<>>,
      <<[id |-> "doc", idBaby |-> b1, ageDayNumber |-> 1, totalKMCToday |-> 40,
         ageDayDate |-> AfterBirth(2)]>>,
      <<[id |-> "doc", idBaby |-> b2, ageDayNumber |-> 2, totalKMCToday |-> 100],
        [id |-> "doc", idBaby |-> b2, ageDayNumber |-> 2, totalKMCToday |-> 15],
        [id |-> "doc", idBaby |-> b1, totalKMCToday |-> 20],
        [id |-> "doc", ageDayNumber |-> 1, totalKMCToday |-> 20]>> }

KmcSessionDocs ==
    { <<>>,
      <<[id |-> "doc", idBaby |-> b1, ageDay |-> 1, kmcStart |-> AfterBirth(3),
         kmcDuration |-> 90]>>,
      <<[id |-> "doc", idBaby |-> b2, ageDay |-> 2, kmcDuration |-> 30],
        [id |-> "doc", idBaby |-> b2, ageDay |-> 2, kmcDuration |-> 20],
        [id |-> "doc", idBaby |-> NoRef, ageDay |-> 1, kmcDuration |-> 60]>> }

ObservationDocs ==
    { <<>>,
      <<[id |-> "doc", idBaby |-> b1, ageDay |-> 1,
         verificationStatus |-> <<"C", "o", "r", "r", "e", "c", "t">>,
         verificationNotes |-> s_needs_review]>>,
      <<[id |-> "doc", idBaby |-> b1, ageDay |-> 1, verificationStatus |-> s_correct,
         verificationNotes |-> s_blank]>>,
      <<[id |-> "doc", idBaby |-> b1, ageDay |-> 1, verificationNotes |-> s_blank],
        [id |-> "doc", idBaby |-> b2, ageDay |-> 3, verificationStatus |-> s_incorrect]>>,
      <<[id |-> "doc", idBaby |-> b2, ageDay |-> 2, temperature |-> Num(36)],
        [id |-> "doc", idBaby |-> b1, ageDay |-> 1, verificationStatus |-> s_correct]>>,
      <<[id |-> "doc", idBaby |-> b2, ageDay |-> 2, verificationStatus |-> NoneStr]>> }

InitReconstruct ==
    /\ baby_data \in SeqUpTo(ReconstructBabies, MaxBabies)
    /\ discharge_data = <<>>
    /\ args \in [age_days_data : AgeDayDocs, kmc_sessions_data : KmcSessionDocs,
                 observations_data : ObservationDocs]
    /\ called = "none"
    /\ result = NoArgs

CallReconstructBabyStructure ==
    /\ called = "none"
    /\ called' = "_reconstruct_baby_structure"
    /\ result' = reconstruct_baby_structure(baby_data, args.age_days_data,
                                             args.kmc_sessions_data,
                                             args.observations_data)
    /\ UNCHANGED <<baby_data, discharge_data, args>>

\* the dashboard passes the reconstructed babies on as baby_data
CallKmcVerificationMonitoring ==
    /\ \/ called = "none" /\ baby_data' = baby_data
       \/ /\ called = "_reconstruct_baby_structure" /\ ~result.raised
          /\ baby_data' = result.babies
    /\ called' = "calculate_kmc_verification_monitoring"
    /\ result' = calculate_kmc_verification_monitoring(baby_data')
    /\ UNCHANGED <<discharge_data, args>>

NextReconstruct == CallReconstructBabyStructure \/ CallKmcVerificationMonitoring

SpecReconstruct == InitReconstruct /\ [][NextReconstruct]_vars

---------------------------------------------------------------------------
(* Claims about the reconstructed days and their verification status *)

ReconstructCalled == called = "_reconstruct_baby_structure" /\ ~result.raised

\* the minutes of the sessions listed under a reconstructed day
RECURSIVE SessionTotal(_, _)
SessionTotal(timeInKMC, i) ==
    IF i > Len(timeInKMC) THEN 0
    ELSE Max(0, timeInKMC[i].duration) + SessionTotal(timeInKMC, i + 1)

\* the minutes of the day aggregate of baby bid and day day_num, 0 without one
AggregateTotal(bid, day_num) ==
    LET Mine(ad) == /\ RefId(ad) = bid
                    /\ Get(ad, "ageDayNumber", NoAgeDay) = day_num
        mine == SelectSeq(args.age_days_data, Mine)
    IN  IF mine = <<>> THEN 0 ELSE Get(mine[1], "totalKMCToday", 0)

\* C13: the totalKMCtimeDay of every day entry built by
\* _reconstruct_baby_structure is the maximum of the day aggregate
\* (totalKMCToday) and the total of the sessions of that day
C13_ReconciledDailyMax ==
    ReconstructCalled =>
        \A i \in DOMAIN result.babies :
            \A j \in DOMAIN result.babies[i].observationDay :
                LET day == result.babies[i].observationDay[j]
                IN  day.totalKMCtimeDay =
                        Max(AggregateTotal(result.babies[i].id, day.ageDay),
                            SessionTotal(day.timeInKMC, 1))

MonitoringCalled == called = "calculate_kmc_verification_monitoring"

NoComment(row) == row.mnecomment \in {EmptyStr, NoneStr}

NoFlags(row) == row.filledCorrectly = FlagNone /\ row.kmcfilledcorrectly = FlagNone

\* C14 (as amended): an observation day whose comment is not blank resolves
\* to 'incorrect' whatever its flags, and a day with no comment and no
\* flag resolves to 'not_verified'
C14_CommentWins ==
    MonitoringCalled =>
        \A j \in DOMAIN result.detailed_data :
            LET row == result.detailed_data[j]
            IN  /\ (~NoComment(row) /\ strip(row.mnecomment) # EmptyStr)
                      => row.status = "incorrect"
                /\ (NoComment(row) /\ NoFlags(row)) => row.status = "not_verified"

\* a day computed from the normalized collections with a comment and both
\* flags True, resolved to 'incorrect'
C14_Witness ==
    /\ MonitoringCalled
    /\ \E j \in DOMAIN result.detailed_data :
           LET row == result.detailed_data[j]
           IN  /\ row.mnecomment = s_needs_review
               /\ row.filledCorrectly = FlagTrue /\ row.kmcfilledcorrectly = FlagTrue
               /\ row.status = "incorrect"
    /\ \E j \in DOMAIN result.detailed_data :
           LET row == result.detailed_data[j]
           IN  NoComment(row) /\ NoFlags(row) /\ row.status = "not_verified"

\* C14 as stated: every non-empty comment resolves to 'incorrect'
C14_NonEmptyComment ==
    MonitoringCalled =>
        \A j \in DOMAIN result.detailed_data :
            LET row == result.detailed_data[j]
            IN  /\ ~NoComment(row) => row.status = "incorrect"
                /\ (NoComment(row) /\ NoFlags(row)) => row.status = "not_verified"

---------------------------------------------------------------------------
(* The sandbox metrics and calculate_average_kmc_by_location on babies     *)
(* with nested sessions, day aggregates and follow-ups (SpecKmcDays).     *)
(* Birth falls on day BirthDay, SandboxNow two days later.                 *)

BirthDay == DateOf(convert_unix_to_datetime(Birth))

BadAgeDay == [ageDayNumber |-> 1, totalKMCToday |-> 40, ageDayDate |-> BadTs]

DayBabySessions ==
    { <<KmcSession(3, 90)>>, <<KmcSession(3, 780), KmcSession(27, 30)>>,
      <<[kmcStart |-> AfterBirth(3)]>> }

DayBabyAgeDays == { <<AgeDay(1, 40, 2)>>, <<AgeDay(1, 40, 2), AgeDay(2, 100, 26)>>,
                    <<BadAgeDay>> }

NestedFollowUps ==
    << [followUpNumber |-> 7, followUpStatus |-> s_completed, kmcHoursCount |-> 3],
       [followUpNumber |-> 28, followUpStatus |-> s_contacted, idBaby |-> "u5",
        readmitted |-> TRUE],
       [followUpNumber |-> 14, followUpStatus |-> s_stable, UID |-> "u1"] >>

DayBabies ==
    { [id |-> "doc", UID |-> "u1", babyInProgram |-> TRUE, dateOfBirth |-> Birth,
       hospitalName |-> h_H1, currentLocationOfTheBaby |-> "SNCU"]
        @@ sessions @@ days :
        sessions \in {DocId} \cup Opt("kmc_sessions", DayBabySessions),
        days \in {DocId} \cup Opt("age_days", DayBabyAgeDays) }
    \cup { [id |-> "doc", UID |-> "u2", babyInProgram |-> TRUE,
            kmc_sessions |-> <<KmcSession(3, 780)>>],
           [id |-> "doc", babyInProgram |-> TRUE, dateOfBirth |-> Birth,
            age_days |-> <<AgeDay(1, 40, 2)>>,
            kmc_sessions |-> <<KmcSession(3, 90)>>],
           [id |-> "doc", UID |-> "u2", babyInProgram |-> TRUE, dateOfBirth |-> Birth,
            placeOfDelivery |-> "this hospital", followUp |-> NestedFollowUps,
            discharged |-> TRUE, lastDischargeStatus |-> s_critical,
            lastDischargeDate |-> AfterBirth(30)],
           [id |-> "doc", UID |-> "u3", babyInProgram |-> TRUE, dateOfBirth |-> Birth,
            placeOfDelivery |-> "this hospital", discharged |-> TRUE,
            lastDischargeStatus |-> s_referred, lastDischargeDate |-> AfterBirth(-1),
            currentLocationOfTheBaby |-> "SNCU"],
           [id |-> "doc", UID |-> "u3", dateOfBirth |-> Birth, hospitalName |-> h_H1,
            observationDay |-> ObservationDays],
           [id |-> "doc", UID |-> "u2", babyInProgram |-> TRUE, dateOfBirth |-> Birth,
            age_days |-> <<[ageDayNumber |-> 1, totalKMCToday |-> 0,
                            ageDayDate |-> BadTs]>>] }

InitKmcDays ==
    /\ baby_data \in SeqUpTo(DayBabies, MaxBabies)
    /\ discharge_data = <<>>
    /\ args = NoArgs
    /\ called = "none"
    /\ result = NoArgs

CallAverageKmcByLocation ==
    /\ called = "none"
    /\ called' = "calculate_average_kmc_by_location"
    /\ \E start_date \in {BirthDay, BirthDay + 1} :
         /\ args' = [start_date |-> start_date, end_date |-> BirthDay + 1]
         /\ result' = calculate_average_kmc_by_location(baby_data, start_date,
                                                        BirthDay + 1)
    /\ UNCHANGED <<baby_data, discharge_data>>

NextKmcDays ==
    \/ CallSandboxSystemMetrics
    \/ CallSandboxProgramMetrics
    \/ CallAverageKmcByLocation

SpecKmcDays == InitKmcDays /\ [][NextKmcDays]_vars


---------------------------------------------------------------------------
(* Claims about the consumers of nested day data (SpecKmcDays) *)

SandboxSystemCalled == called = "calculate_sandbox_system_metrics"

SandboxProgramCalled == called = "calculate_sandbox_program_metrics"

LocationCalled == called = "calculate_average_kmc_by_location"

\* an age_days entry whose ageDayDate is absent or parses
DateParses(day) ==
    \/ ~TsTruthy(Get(day, "ageDayDate", NoTs))
    \/ convert_unix_to_datetime(day.ageDayDate).ok

\* the babies without their age_days entries of unparseable date
WithoutBadDays(babies) ==
    [i \in DOMAIN babies |->
        IF Has(babies[i], "age_days")
        THEN [babies[i] EXCEPT !.age_days = SelectSeq(@, DateParses)]
        ELSE babies[i]]

\* C18: an age_days entry whose ageDayDate is non-empty but unparseable is
\* treated as absent: the call returns, and its date-bounded totals are
\* those of the input without that entry
C18_UnparseableDateAbsent ==
    /\ LocationCalled =>
          /\ ~result.raised
          /\ result.result_data =
                calculate_average_kmc_by_location(
                    WithoutBadDays(baby_data), args.start_date, args.end_date).result_data
    /\ SandboxSystemCalled =>
          /\ ~result.raised
          /\ result.daily_kmc_map =
                calculate_sandbox_system_metrics(
                    WithoutBadDays(baby_data), discharge_data, args.followup_data,
                    args.kmc_session_data, args.now).daily_kmc_map
    /\ SandboxProgramCalled =>
          /\ ~result.raised
          /\ result.kmc_per_day =
                calculate_sandbox_program_metrics(
                    WithoutBadDays(baby_data), discharge_data, args.followup_data,
                    args.kmc_session_data, args.now).kmc_per_day

\* C19: a call to a sandbox function leaves every record of baby_data, with
\* its nested followUp and kmc_sessions entries, as it was
C19_InputsUnchanged == [][baby_data' = baby_data]_vars


---------------------------------------------------------------------------
(* calculate_death_rates on babies with birth and death dates              *)
(* (SpecDeathAge)                                                          *)

\* a death h hours after the birth of Birth
DeathOffsets == {15 * 24, 28 * 24 + 23, 29 * 24, 40 * 24, -1}

DeathAgeBabies ==
    { [id |-> "doc", UID |-> "u1", deadBaby |-> dead] @@ birth @@ death :
        dead \in BOOLEAN,
        birth \in {DocId} \cup Opt("dateOfBirth", {Birth}),
        death \in {DocId} \cup Opt("dateOfDeath",
                                   { AfterBirth(h) : h \in DeathOffsets } \cup {BadTs}) }
    \cup { [id |-> "doc", UID |-> "u2", deadBaby |-> TRUE, dateOfBirth |-> Birth,
            dateOfDeath |-> AfterBirth(40 * 24)],
           [id |-> "doc", deadBaby |-> TRUE, dateOfBirth |-> Birth,
            dateOfDeath |-> AfterBirth(15 * 24)],
           [id |-> "doc", UID |-> "u2", dateOfBirth |-> Birth,
            dateOfDeath |-> AfterBirth(15 * 24)] }

InitDeathAge ==
    /\ baby_data \in SeqUpTo(DeathAgeBabies, MaxBabies)
    /\ discharge_data = <<>>
    /\ args = NoArgs
    /\ called = "none"
    /\ result = NoArgs

SpecDeathAge == InitDeathAge /\ [][NextDeath]_vars

---------------------------------------------------------------------------
(* Claims about the neonatal and infant deaths (SpecDeathAge) *)

\* the first record of baby_data with the given UID
FirstRecordOf(uid) ==
    baby_data[CHOOSE i \in DOMAIN baby_data :
                 /\ Get(baby_data[i], "UID", None) = uid
                 /\ \A j \in 1..(i - 1) : Get(baby_data[j], "UID", None) # uid]

BothDates(baby) ==
    /\ convert_unix_to_datetime(Get(baby, "dateOfBirth", NoTs)).ok
    /\ convert_unix_to_datetime(Get(baby, "dateOfDeath", NoTs)).ok

\* the age at death in whole days
WholeDays(baby) ==
    LET lived == convert_unix_to_datetime(baby.dateOfDeath).t
                   - convert_unix_to_datetime(baby.dateOfBirth).t
    IN  CHOOSE n \in -1..60 : n * MinutesPerDay <= lived /\ lived < (n + 1) * MinutesPerDay

DatedDeadUids == { uid \in DeadUids : BothDates(FirstRecordOf(uid)) }

\* C15: a dead UID with both dates is a neonatal death iff its age at death
\* in whole days is <= 28 and an infant death otherwise; a dead UID without
\* one of the dates, and a baby that is not dead, are in neither count
C15_NeonatalInfant ==
    DeathCalled /\ ~result.raised =>
        /\ result.neonatal_vs_infant.neonatal.deaths =
              Cardinality({ uid \in DatedDeadUids : WholeDays(FirstRecordOf(uid)) <= 28 })
        /\ result.neonatal_vs_infant.infant.deaths =
              Cardinality({ uid \in DatedDeadUids : WholeDays(FirstRecordOf(uid)) > 28 })
        /\ result.neonatal_vs_infant.neonatal.deaths
             + result.neonatal_vs_infant.infant.deaths = Cardinality(DatedDeadUids)

\* one baby dead at 28 days and 23 hours and one dead at 40 days
C15_Witness ==
    /\ DeathCalled
    /\ ~result.raised
    /\ Len(baby_data) = 2
    /\ Get(baby_data[1], "UID", None) = "u1"
    /\ IsDead(baby_data[1]) /\ BothDates(baby_data[1])
    /\ baby_data[1].dateOfDeath = AfterBirth(28 * 24 + 23)
    /\ Get(baby_data[2], "UID", None) = "u2" /\ IsDead(baby_data[2])
    /\ result.neonatal_vs_infant.neonatal.deaths = 1
    /\ result.neonatal_vs_infant.infant.deaths = 1


---------------------------------------------------------------------------
(* The aggregators that return ratios, on lists that leave denominators    *)
(* empty (SpecRatios)                                                      *)

RatioBabies ==
    { [id |-> "doc", UID |-> "u1", placeOfDelivery |-> "other", hospitalName |-> h_H1,
       babyInProgram |-> TRUE, dateOfBirth |-> Birth],
      [id |-> "doc", UID |-> "u1", placeOfDelivery |-> "this hospital",
       hospitalName |-> h_H1, dateOfBirth |-> Birth,
       registrationDate |-> AfterBirth(12), babyInProgram |-> TRUE,
       followUp |-> NestedFollowUps, kmc_sessions |-> <<KmcSession(3, 90)>>],
      [id |-> "doc", UID |-> "u2", deadBaby |-> TRUE, hospitalName |-> h_H2],
      [id |-> "doc", placeOfDelivery |-> "this hospital", dateOfBirth |-> Birth,
       registrationDate |-> AfterBirth(30)],
      [id |-> "doc", UID |-> "u2", babyInProgram |-> TRUE,
       kmc_sessions |-> <<[kmcStart |-> AfterBirth(3)]>>],
      [id |-> "doc", UID |-> "u3", babyInProgram |-> TRUE, dateOfBirth |-> Birth,
       discharged |-> TRUE, lastDischargeStatus |-> s_critical,
       age_days |-> <<AgeDay(1, 40, 2)>>, hospitalName |-> h_H1,
       followUp |-> <<[followUpNumber |-> 2]>>],
      [id |-> "doc", UID |-> "u3", dateOfBirth |-> Birth,
       age_days |-> <<AgeDay(1, 0, 2)>>] }

InitRatios ==
    /\ baby_data \in SeqUpTo(RatioBabies, MaxBabies)
    /\ discharge_data = <<>>
    /\ args = NoArgs
    /\ called = "none"
    /\ result = NoArgs

NextRatios ==
    \/ CallRegistrationTimeliness
    \/ CallFollowupMetrics
    \/ CallDeathRates
    \/ CallAverageKmcByLocation
    \/ CallSandboxSystemMetrics
    \/ CallSandboxProgramMetrics

SpecRatios == InitRatios /\ [][NextRatios]_vars

---------------------------------------------------------------------------
(* Claims about the ratios (SpecRatios) *)

\* the <<ratio, denominator>> keys of the system sandbox result that
\* safe_div computes
SystemRatios ==
    { <<"m6_completeness_pct", "m6_completeness_denom">>,
      <<"m7_early_transfer_pct", "m7_early_transfer_denom">>,
      <<"m9_d7_pct", "m9_d7_denom">>, <<"m10_d14_pct", "m10_d14_denom">>,
      <<"m11_d21_pct", "m11_d21_denom">>, <<"m12_d28_pct", "m12_d28_denom">> }

\* those of the program sandbox result
ProgramRatios ==
    { <<"m1_any_init_pct", "m1_any_init_den">>, <<"m2_init_24h_pct", "m2_init_24h_den">>,
      <<"m3_mean_daily_kmc", "m4_days_12h_den">>, <<"m4_days_12h_pct", "m4_days_12h_den">>,
      <<"m7_critical_pct", "m7_critical_den">>,
      <<"m9_kmc_cont_d7_pct", "m9_kmc_cont_d7_den">>,
      <<"m10_kmc_cont_d28_pct", "m10_kmc_cont_d28_den">>,
      <<"m11_care_d7_pct", "m11_care_d7_den">>,
      <<"m12_care_d28_pct", "m12_care_d28_den">> }

\* C16: a ratio whose denominator is 0 is returned as exactly 0: the
\* registration percentages, the overall follow-up completion rate, the
\* mortality rate and the per-hospital rates, avg_hours_per_baby, and every
\* sandbox ratio computed through safe_div
C16_ZeroDenominator ==
    /\ (called = "calculate_registration_timeliness" /\ result.total_inborn = 0) =>
          /\ result.within_24h_percentage = Zero
          /\ result.within_12h_percentage = Zero
    /\ (FollowupCalled /\ result.total_eligible = 0) =>
          result.overall_completion_rate = Zero
    /\ (DeathCalled /\ ~result.raised) =>
          /\ result.total_babies = 0 => result.mortality_rate = Zero
          /\ \A h \in DOMAIN result.hospital_data :
                result.hospital_data[h].total = 0 => result.hospital_data[h].rate = Zero
    /\ (LocationCalled /\ ~result.raised) =>
          \A j \in DOMAIN result.result_data :
             result.result_data[j].baby_count = 0 =>
                result.result_data[j].avg_hours_per_baby = Zero
    /\ (SandboxSystemCalled /\ ~result.raised) =>
          /\ \A r \in SystemRatios : result[r[2]] = 0 => result[r[1]] = Zero
          /\ result.m13_total_days = 0 =>
                \A b \in DOMAIN result.m13_distribution : result.m13_distribution[b] = Zero
    /\ (SandboxProgramCalled /\ ~result.raised) =>
          \A r \in ProgramRatios : result[r[2]] = 0 => result[r[1]] = Zero

\* a program sandbox result with eligible babies and no baby-day
C16_Witness ==
    /\ SandboxProgramCalled
    /\ ~result.raised
    /\ result.m1_any_init_den > 0
    /\ result.m4_days_12h_den = 0
    /\ result.m4_days_12h_pct = Zero
    /\ result.m7_critical_den = 0
    /\ result.m7_critical_pct = Zero


---------------------------------------------------------------------------
(* Claims about malformed discharge records (SpecCat) *)

\* the status or type field of the source is absent or None
CatMalformed ==
    LET status_key == IF args.source = "discharges" THEN "dischargeStatus"
                      ELSE "lastDischargeStatus"
        type_key == IF args.source = "discharges" THEN "dischargeType"
                    ELSE "lastDischargeType"
    IN  \/ ~Has(args.record, status_key) \/ args.record[status_key] = NoneStr
        \/ ~Has(args.record, type_key) \/ args.record[type_key] = NoneStr

\* C17: categorize_discharge never raises; a record whose status or type is
\* absent or None gets one of the five categories, and 'other' unless its
\* type says died
C17_MalformedIsOther ==
    (CatCalled /\ args.source \in CatSources /\ CatMalformed) =>
        /\ result \in CategoryKeys
        /\ ~SameWord(CatType, s_died) => result = "other"


---------------------------------------------------------------------------
(* Claims about the shape of the initiation result (SpecKmc) *)

StatsKeys == {"count", "avg_time_hours", "within_24h_count", "within_24h_percentage",
              "within_48h_count", "within_48h_percentage"}

\* C20: calculate_kmc_initiation_metrics returns inborn_stats and
\* outborn_stats with the same keys (count, avg_time_hours, within_24h_*,
\* within_48h_*) whether or not any inborn or outborn baby has KMC, also
\* for an empty baby_data
C20_StatsKeyShape ==
    KmcCalled =>
        /\ DOMAIN result.inborn_stats = StatsKeys
        /\ DOMAIN result.outborn_stats = StatsKeys

---------------------------------------------------------------------------
(* Specification: calls of check_kmc_stability *)

StabilityFlagValues == {DocId} \cup Opt("sepsis", BOOLEAN) \cup Opt("onOxygen", BOOLEAN)
                          \cup Opt("seizures", {TRUE})

StabilityBirthWeights ==
    {Num(0), Num(1499), Num(1500), Num(2000), [kind |-> "str", v |-> 1200],
     [kind |-> "str", v |-> 0], [kind |-> "str", v |-> 1800],
     [kind |-> "bad", v |-> 0], [kind |-> "obj", v |-> 0]}

StabilityWeights == {Num(0), Num(1000), Num(1600), [kind |-> "bad", v |-> 0]}

StabilityBabies ==
    { DocId @@ f @@ bw @@ w :
        f \in StabilityFlagValues,
        bw \in {DocId} \cup Opt("birthWeight", StabilityBirthWeights),
        w \in {DocId} \cup Opt("weight", StabilityWeights) }

InitStability ==
    /\ baby_data = <<>>
    /\ discharge_data = <<>>
    /\ args \in [baby : StabilityBabies]
    /\ called = "none"
    /\ result = NoArgs

CallCheckKmcStability ==
    /\ called = "none"
    /\ result' = [status |-> check_kmc_stability(args.baby)]
    /\ called' = "check_kmc_stability"
    /\ UNCHANGED <<baby_data, discharge_data, args>>

NextStability == CallCheckKmcStability

SpecStability == InitStability /\ [][NextStability]_vars

---------------------------------------------------------------------------
(* Claims about check_kmc_stability (SpecStability) *)

StabilityCalled == called = "check_kmc_stability"

\* one of the clinical flags of the baby is true
AnyFlag(baby) == \E k \in InstabilityFlags : IsTrue(baby, k)

\* the birth weight of the baby: birthWeight when the record has one, else weight
StatedWeight(baby) ==
    IF Has(baby, "birthWeight") THEN baby.birthWeight ELSE Get(baby, "weight", NoNum)

\* the birth weight parses to a number below 1500
ParsesBelow1500(baby) ==
    /\ StatedWeight(baby).kind \in {"num", "str"}
    /\ StatedWeight(baby).v < 1500

\* C21: check_kmc_stability returns 'unstable' iff a clinical flag is true
\* or the birth weight parses to a number < 1500, for every numeric weight
\* including 0, and 'stable' otherwise
C21_StabilityRule ==
    StabilityCalled =>
        /\ result.status \in {"stable", "unstable"}
        /\ result.status = "unstable" <=>
               (AnyFlag(args.baby) \/ ParsesBelow1500(args.baby))

\* the same rule over the babies whose birthWeight is not the number 0
StabilityRuleNonZero ==
    (StabilityCalled /\ Get(args.baby, "birthWeight", NoNum) # Num(0)
                     /\ StatedWeight(args.baby) # Num(0)) =>
        (result.status = "unstable" <=>
               (AnyFlag(args.baby) \/ ParsesBelow1500(args.baby)))

---------------------------------------------------------------------------
(* Claims about the numerators of the program metrics (SpecKmcDays) *)

\* C22: in calculate_sandbox_program_metrics each numerator is at most its
\* denominator: the days with at least 12 hours of KMC never exceed the
\* inpatient baby-days, and the babies with any KMC initiation and with
\* initiation within 24 hours never exceed the eligible babies
C22_NumeratorWithinDenominator ==
    (SandboxProgramCalled /\ ~result.raised) =>
        /\ result.m4_days_12h_num <= result.m4_days_12h_den
        /\ result.m1_any_init_num <= Len(result.eligible_babies_list)
        /\ result.m2_init_24h_num <= Len(result.eligible_babies_list)

\* the two initiation numerators alone
InitiationWithinEligible ==
    (SandboxProgramCalled /\ ~result.raised) =>
        /\ result.m1_any_init_num <= Len(result.eligible_babies_list)
        /\ result.m2_init_24h_num <= Len(result.eligible_babies_list)

---------------------------------------------------------------------------
(* Claims about the inpatient baby-days (SpecKmcDays) *)

\* the baby has a dateOfBirth that parses
BirthResolvable(baby) == convert_unix_to_datetime(Get(baby, "dateOfBirth", NoTs)).ok

\* C26: in calculate_sandbox_system_metrics every eligible baby contributes
\* at least 1 to m3_baby_days, so m3_baby_days >= m2_admitted, also for a
\* baby discharged before its birth and for a baby without birth date
C26_BabyDaysFloor ==
    (SandboxSystemCalled /\ ~result.raised) =>
        result.m3_baby_days >= result.m2_admitted

\* the floor over the eligible babies with a resolvable birth date
BabyDaysFloorWithBirth ==
    (SandboxSystemCalled /\ ~result.raised) =>
        result.m3_baby_days >=
            Len(SelectSeq(SelectSeq(baby_data, is_eligible_system), BirthResolvable))

---------------------------------------------------------------------------
(* Claims about the initiation numerators (SpecKmcDays) *)

\* C29: in calculate_sandbox_program_metrics the babies that initiated KMC
\* within 24 hours are among the babies with any KMC initiation:
\* m2_init_24h_num <= m1_any_init_num, also for sessions with a start time
\* and zero or missing duration
C29_Init24hWithinAnyInit ==
    (SandboxProgramCalled /\ ~result.raised) =>
        result.m2_init_24h_num <= result.m1_any_init_num

---------------------------------------------------------------------------
(* Claims about records sharing a UID (SpecFollowup) *)

\* C23: when several records of baby_data share a UID, calculate_followup_metrics
\* uses only the first one in iteration order: its counts are those of the
\* list of first records, and a UID whose first record is dead contributes
\* to no eligible or completed count even when a later record is not dead
C23_FirstRecordOnly ==
    FollowupCalled =>
        LET first_only == calculate_followup_metrics(<<>>, FollowupEntities)
        IN  /\ result.hospital_summary = first_only.hospital_summary
            /\ result.total_eligible = first_only.total_eligible
            /\ result.total_completed = first_only.total_completed
            /\ (\A i \in DOMAIN FollowupEntities : IsDead(FollowupEntities[i]))
                  => result.total_eligible = 0

---------------------------------------------------------------------------
(* Specification: discharge lookups with several records of one UID *)

DateDischarges ==
    { [id |-> "doc", UID |-> "u1"] @@ d @@ f :
        d \in {DocId} \cup Opt("dischargeDate", {AfterBirth(48), AfterBirth(72), BadTs}),
        f \in {DocId} \cup Opt("feedMode", {<<"discharges", "feedMode">>}) }
    \cup { [id |-> "doc", UID |-> "u2", dischargeDate |-> AfterBirth(24)] }

DateBabies ==
    { [id |-> "doc", UID |-> "u1", deadBaby |-> TRUE, dateOfBirth |-> Birth] @@ dis @@ d :
        dis \in {DocId} \cup Opt("discharged", {TRUE}),
        d \in {DocId} \cup Opt("lastDischargeDate", {AfterBirth(96)}) }

InitDischargeDate ==
    /\ baby_data \in [1..1 -> DateBabies]
    /\ discharge_data \in SeqUpTo(DateDischarges, MaxDischarges)
    /\ args = NoArgs
    /\ called = "none"
    /\ result = NoArgs

CallHierarchicalDischargeDate ==
    /\ called = "none"
    /\ called' = "get_hierarchical_discharge_date"
    /\ result' = get_hierarchical_discharge_date(baby_data[1], discharge_data)
    /\ UNCHANGED <<baby_data, discharge_data, args>>

NextDischargeDate == CallHierarchicalDischargeDate \/ CallDetailedMortalityList

SpecDischargeDate == InitDischargeDate /\ [][NextDischargeDate]_vars

---------------------------------------------------------------------------
(* Claims about duplicate discharge records (SpecDischargeDate) *)

HierarchicalCalled == called = "get_hierarchical_discharge_date"

MortalityListCalled == called = "calculate_detailed_mortality_list"

\* C24: with several records of the patient's UID in discharge_data only the
\* first one in list order is consulted: get_hierarchical_discharge_date and
\* calculate_detailed_mortality_list return what they return on the list
\* without the second and later records of each UID
C24_FirstDischargeOnly ==
    /\ HierarchicalCalled =>
          result = get_hierarchical_discharge_date(baby_data[1], FirstPerUID(discharge_data))
    /\ MortalityListCalled =>
          result = calculate_detailed_mortality_list(baby_data, FirstPerUID(discharge_data))

\* the matching_discharge lookup alone
MortalityFirstDischargeOnly ==
    MortalityListCalled =>
        result = calculate_detailed_mortality_list(baby_data, FirstPerUID(discharge_data))

---------------------------------------------------------------------------
(* Specification: calculate_average_kmc_by_location on hospital and       *)
(* location names with and without '-'                                     *)

h_H1_PNC == <<"H1", "-", "PNC">>

PairAgeDays == { <<AgeDay(1, 40, 2)>>, <<AgeDay(1, 120, 2), AgeDay(2, 60, 26)>>,
                 <<AgeDay(1, 0, 2)>> }

PairBabies ==
    { [id |-> "doc", UID |-> "u1", dateOfBirth |-> Birth, hospitalName |-> h,
       currentLocationOfTheBaby |-> l, age_days |-> days] :
        h \in {h_H1, h_H1_PNC}, l \in {"2", "PNC-2", "PNC"}, days \in PairAgeDays }

InitLocation ==
    /\ baby_data \in SeqUpTo(PairBabies, MaxBabies)
    /\ discharge_data = <<>>
    /\ args = NoArgs
    /\ called = "none"
    /\ result = NoArgs

NextLocation == CallAverageKmcByLocation

SpecLocation == InitLocation /\ [][NextLocation]_vars

---------------------------------------------------------------------------
(* Claims about the grouping by hospital and location (SpecLocation) *)

\* the in-window positive KMC minutes and days of the babies i.. of the list
\* that have the given hospital and location
RECURSIVE PairMinutes(_, _, _)
PairMinutes(hospital, location, i) ==
    IF i > Len(baby_data) THEN <<>>
    ELSE LET baby == baby_data[i]
             birth_date == convert_unix_to_datetime(Get(baby, "dateOfBirth", NoTs))
             same == /\ Get(baby, "hospitalName", Unknown) = hospital
                     /\ Get(baby, "currentLocationOfTheBaby", "Unknown") = location
                     /\ birth_date.ok
         IN  (IF same THEN KmcMinutesInPeriod(baby, birth_date, args.start_date, args.end_date)
              ELSE <<>>)
                 \o PairMinutes(hospital, location, i + 1)

\* C25: calculate_average_kmc_by_location groups by the (hospital, location)
\* pair, also for names containing '-': each pair with a positive-KMC day in
\* the window has one row, each row holds the days of the babies of its pair
\* only, and avg_hours_per_day = total minutes / (60 * observation days)
C25_GroupedByPair ==
    (LocationCalled /\ ~result.raised) =>
        LET rows == result.result_data
        IN  /\ \A i \in DOMAIN rows :
                 LET minutes == PairMinutes(rows[i].hospital, rows[i].location, 1)
                 IN  /\ rows[i].observation_days = Len(minutes)
                     /\ rows[i].avg_hours_per_day
                          = Frac(SumSeq(minutes, 1), 60 * rows[i].observation_days)
            /\ \A j \in DOMAIN baby_data :
                 LET hospital == Get(baby_data[j], "hospitalName", Unknown)
                     location == Get(baby_data[j], "currentLocationOfTheBaby", "Unknown")
                 IN  PairMinutes(hospital, location, 1) # <<>> =>
                         \E i \in DOMAIN rows :
                             rows[i].hospital = hospital /\ rows[i].location = location

---------------------------------------------------------------------------
(* dashboard_firebase.load_query_with_retry and load_collection_with_retry *)
(* The loader's position is kept in result:                                *)
(*   pc        "attempt" at the top of the try of one loop iteration,      *)
(*             "stream" inside `for doc in docs`, "returned" after return  *)
(*   attempt   the loop variable; failures the attempts that raised        *)
(*   acc       the list `result` of the running attempt, as the indexes of *)
(*             the documents appended; pos the next document of the stream *)
(*   value     the returned list                                           *)
(* args.docs is the remote collection: each document either converts       *)
(* ("ok") or makes to_dict / the serializer raise ("corrupt"); args.db is  *)
(* FALSE when initialize_firebase returns None.                            *)

MaxDocs == 2

MaxRetries == 2

Loaders == {"load_query_with_retry", "load_collection_with_retry"}

Returned(value, attempt, failures) ==
    [pc |-> "returned", attempt |-> attempt, failures |-> failures,
     acc |-> <<>>, pos |-> 0, value |-> value, succeeded |-> FALSE]

InitLoad ==
    /\ baby_data = <<>>
    /\ discharge_data = <<>>
    /\ args \in [loader : Loaders, docs : SeqUpTo({"ok", "corrupt"}, MaxDocs),
                 max_retries : 0..MaxRetries, db : BOOLEAN]
    /\ called = "none"
    /\ result = NoArgs

\* entry: `db = initialize_firebase(); if not db: return []` (collection
\* loader only), then `for attempt in range(max_retries)`, and the final
\* `return []` when the range is empty
CallLoad ==
    /\ called = "none"
    /\ called' = args.loader
    /\ result' = IF (args.loader = "load_collection_with_retry" /\ ~args.db)
                    \/ args.max_retries = 0
                 THEN Returned(<<>>, 0, 0)
                 ELSE [pc |-> "attempt", attempt |-> 0, failures |-> 0, acc |-> <<>>,
                       pos |-> 0, value |-> <<>>, succeeded |-> FALSE]
    /\ UNCHANGED <<baby_data, discharge_data, args>>

Loading == called \in Loaders

\* docs = query.stream(); result = []
StreamOpens ==
    /\ Loading /\ result.pc = "attempt"
    /\ result' = [result EXCEPT !.pc = "stream", !.acc = <<>>, !.pos = 1]
    /\ UNCHANGED <<baby_data, discharge_data, args, called>>

\* an exception of the stream, at the call or while iterating, reaches the
\* outer except: the next attempt, or `return []` on the last one
StreamFails ==
    /\ Loading /\ result.pc \in {"attempt", "stream"}
    /\ result' = IF result.attempt < args.max_retries - 1
                 THEN [result EXCEPT !.pc = "attempt", !.attempt = @ + 1,
                                     !.failures = @ + 1, !.acc = <<>>, !.pos = 0]
                 ELSE Returned(<<>>, result.attempt, result.failures + 1)
    /\ UNCHANGED <<baby_data, discharge_data, args, called>>

\* one iteration of `for doc in docs`: the document is appended, or the
\* inner except skips it (`continue`)
FetchDoc ==
    /\ Loading /\ result.pc = "stream" /\ result.pos <= Len(args.docs)
    /\ result' = [result EXCEPT
                    !.pos = @ + 1,
                    !.acc = IF args.docs[result.pos] = "ok"
                            THEN Append(@, result.pos) ELSE @]
    /\ UNCHANGED <<baby_data, discharge_data, args, called>>

\* return result
ReturnResult ==
    /\ Loading /\ result.pc = "stream" /\ result.pos > Len(args.docs)
    /\ result' = [Returned(result.acc, result.attempt, result.failures)
                    EXCEPT !.succeeded = TRUE]
    /\ UNCHANGED <<baby_data, discharge_data, args, called>>

NextLoad == CallLoad \/ StreamOpens \/ StreamFails \/ FetchDoc \/ ReturnResult

SpecLoad == InitLoad /\ [][NextLoad]_vars

---------------------------------------------------------------------------
(* Claims about the loaders (SpecLoad) *)

LoadReturned == Loading /\ result.pc = "returned"

\* the whole collection, as the indexes of its documents
WholeCollection == [i \in DOMAIN args.docs |-> i]

\* C27: a loader makes at most max_retries attempts, returns the result of
\* the first attempt that succeeds, returns [] when every attempt fails, and
\* hands over either the empty list or the whole collection, never a
\* partially fetched one
C27_FailuresBecomeEmpty ==
    /\ Loading => result.attempt + 1 <= Max(args.max_retries, 1)
    /\ LoadReturned =>
          /\ result.failures <= args.max_retries
          /\ result.succeeded => result.failures = result.attempt
          /\ ~result.succeeded => result.value = <<>>
          /\ result.value = <<>> \/ result.value = WholeCollection

\* the attempts and the empty list, without the completeness of the value
AttemptsAndEmpty ==
    /\ Loading => result.attempt + 1 <= Max(args.max_retries, 1)
    /\ LoadReturned =>
          /\ result.failures <= args.max_retries
          /\ result.succeeded => result.failures = result.attempt
          /\ ~result.succeeded => result.value = <<>>

---------------------------------------------------------------------------
(* Specification: calculate_death_rates on babies of several hospitals,   *)
(* locations, places of delivery and stability                             *)

TotalsBabies ==
    { [id |-> "doc", UID |-> "u1", hospitalName |-> h, deadBaby |-> dead] @@ place :
        h \in {h_H1, h_H2}, dead \in BOOLEAN,
        place \in {DocId, [placeOfDelivery |-> "this hospital",
                           currentLocationOfTheBaby |-> "SNCU"]} }
    \cup { [id |-> "doc", UID |-> "u2", deadBaby |-> TRUE, sepsis |-> TRUE,
            dateOfBirth |-> Birth, dateOfDeath |-> AfterBirth(15 * 24),
            source |-> "baby", discharged |-> TRUE] @@ EmbeddedOf("baby"),
           [id |-> "doc", UID |-> "u2", hospitalName |-> h_H1, birthWeight |-> Num(1200),
            source |-> "babyBackUp", discharged |-> TRUE] @@ EmbeddedOf("babyBackUp"),
           [id |-> "doc", hospitalName |-> h_H1, deadBaby |-> TRUE,
            dateOfBirth |-> Birth, dateOfDeath |-> AfterBirth(40 * 24)] }

TotalsDischarges ==
    { [id |-> "doc", UID |-> "u1", dischargeStatus |-> s_critical, dischargeType |-> s_home],
      [id |-> "doc", UID |-> "u2", dischargeStatus |-> s_Critical, dischargeType |-> s_Died],
      [id |-> "doc", dischargeStatus |-> s_stable, dischargeType |-> s_home] }

InitDeathTotals ==
    /\ baby_data \in SeqUpTo(TotalsBabies, MaxBabies)
    /\ discharge_data \in SeqUpTo(TotalsDischarges, MaxDischarges)
    /\ args = NoArgs
    /\ called = "none"
    /\ result = NoArgs

SpecDeathTotals == InitDeathTotals /\ [][NextDeath]_vars

---------------------------------------------------------------------------
(* Claims about the totals of calculate_death_rates (SpecDeathTotals) *)

\* the distinct non-empty UIDs of baby_data
DistinctUids ==
    { Get(baby_data[i], "UID", None) : i \in {j \in DOMAIN baby_data : HasUid(baby_data[j])} }

\* the sum of one field over the groups of a breakdown
RECURSIVE SumGroups(_, _, _)
SumGroups(groups, keys, field) ==
    IF keys = {} THEN 0
    ELSE LET key == CHOOSE k \in keys : TRUE
         IN  groups[key][field] + SumGroups(groups, keys \ {key}, field)

\* C28: every result of calculate_death_rates is internally consistent:
\* total_babies is the number of distinct non-empty UIDs; the inborn/outborn,
\* stable/unstable, hospital and location totals each add up to total_babies;
\* the inborn/outborn, stable/unstable and hospital deaths each add up to
\* dead_babies <= total_babies; neonatal + infant deaths <= dead_babies; and
\* total_discharged <= dead_babies
C28_DeathTotalsConsistent ==
    (DeathCalled /\ ~result.raised) =>
        LET total == result.total_babies
            deaths == result.dead_babies
            hospitals == result.hospital_data
            locations == result.location_analysis
        IN  /\ total = Cardinality(DistinctUids)
            /\ result.birth_place.inborn.total + result.birth_place.outborn.total = total
            /\ result.kmc_stability.stable.total + result.kmc_stability.unstable.total = total
            /\ SumGroups(hospitals, DOMAIN hospitals, "total") = total
            /\ SumGroups(locations, DOMAIN locations, "total") = total
            /\ result.birth_place.inborn.deaths + result.birth_place.outborn.deaths = deaths
            /\ result.kmc_stability.stable.deaths + result.kmc_stability.unstable.deaths
                 = deaths
            /\ SumGroups(hospitals, DOMAIN hospitals, "deaths") = deaths
            /\ deaths <= total
            /\ result.neonatal_vs_infant.neonatal.deaths
                 + result.neonatal_vs_infant.infant.deaths <= deaths
            /\ result.discharge_outcomes.total_discharged <= deaths

\* two records of one UID, the first dead, counted as one dead baby with one
\* discharge outcome
C28_Witness ==
    /\ DeathCalled
    /\ ~result.raised
    /\ Len(baby_data) = 2
    /\ Get(baby_data[1], "UID", None) = Get(baby_data[2], "UID", None)
    /\ HasUid(baby_data[1])
    /\ result.total_babies = 1
    /\ result.dead_babies = 1
    /\ result.discharge_outcomes.total_discharged = 1

---------------------------------------------------------------------------
(* Specification: calculate_nurse_activity on records of two hospitals *)

HospitalFollowUps ==
    { <<[followUpNumber |-> 7, followUpDate |-> InDay]>>,
      <<[followUpNumber |-> 7, date |-> InDay], [followUpNumber |-> 5, date |-> InDay]>> }

HospitalBabies ==
    { [id |-> "doc", UID |-> "u1", source |-> "baby", nurseName |-> n_asha,
       hospitalName |-> h] @@ reg @@ fu @@ dis :
        h \in {h_H1, h_H2},
        reg \in {DocId} \cup Opt("registrationDate", {InDay, OutDay}),
        fu \in {DocId} \cup Opt("followUp", HospitalFollowUps),
        dis \in {DocId, [discharged |-> TRUE, lastDischargeDate |-> InDay]} }

HospitalDischarges ==
    { [id |-> "doc", UID |-> u, dischargeNurseName |-> n_dn, hospitalName |-> h,
       dischargeDate |-> InDay] : u \in {"u1", "u2"}, h \in {h_H1, h_H2} }

InitNurseHospitals ==
    /\ baby_data \in SeqUpTo(HospitalBabies, MaxBabies)
    /\ discharge_data \in SeqUpTo(HospitalDischarges, MaxDischarges)
    /\ args = NoArgs
    /\ called = "none"
    /\ result = NoArgs

SpecNurseHospitals == InitNurseHospitals /\ [][NextNurse]_vars

---------------------------------------------------------------------------
(* Claims about the hospital filter of calculate_nurse_activity            *)
(* (SpecNurseHospitals)                                                    *)

\* the nurse keys of hospitals outside a non-empty selected_hospitals
NonSelectedKeys ==
    { key \in DOMAIN result.nurse_analysis :
        /\ args.selected_hospitals # {}
        /\ result.nurse_analysis[key].hospital \notin args.selected_hospitals }

\* C30: with a non-empty selected_hospitals no counter is incremented for a
\* record of a hospital outside it: every nurse key of a non-selected
\* hospital has followUps, discharges and registrations equal to 0
C30_NonSelectedUncounted ==
    NurseCalled =>
        \A key \in NonSelectedKeys :
            /\ result.nurse_analysis[key].followUps = 0
            /\ result.nurse_analysis[key].discharges = 0
            /\ result.nurse_analysis[key].registrations = 0

\* the follow-up and discharge counters alone
NonSelectedFollowUpsDischarges ==
    NurseCalled =>
        \A key \in NonSelectedKeys :
            /\ result.nurse_analysis[key].followUps = 0
            /\ result.nurse_analysis[key].discharges = 0

===========================================================================
